---- MODULE Spec2Model ----
(***************************************************************************)
(* A model of the merkle-race tree-update engine: the NodeIndex arithmetic *)
(* (src/src/node_index.rs), the flat-array AbstractMerkle tree and its      *)
(* batched update loop (src/src/merkle.rs), the CRHF hashing policy         *)
(* (src/src/merkle_crhf.rs) and the incremental Merkle++ policy             *)
(* (src/src/merkle_pp.rs).                                                  *)
(*                                                                         *)
(* The cryptographic hash is modelled symbolically: a digest is a record    *)
(* that remembers the domain-separation tag and the exact input that was    *)
(* hashed, so two digests are equal exactly when their inputs are equal.    *)
(* The variable "build" says whether debug assertions and overflow checks   *)
(* are compiled in (cargo test) or not (cargo build --release).             *)
(***************************************************************************)
EXTENDS Integers, Sequences, FiniteSets, TLC

\* ------------------------------------------------------------------ bounds
MaxArity == 3
MaxNumLeaves == 4
MaxCalls == 2
MaxIndex == 20
MaxCtorLeaves == 30
MaxHeight == 3

Arities == 2..MaxArity
\* Trees of up to MaxNumLeaves leaves receive MaxCalls batches; the two next
\* larger leaf counts are explored too, with fewer batches (CallBudget).
LeafCounts == 1..(MaxNumLeaves + 2)

VARIABLES merkle, queue, pc, calls, pre, batch, op, shadow, updated, ni,
          ctor, build, applied, hn

vars == <<merkle, queue, pc, calls, pre, batch, op, shadow, updated, ni,
          ctor, build, applied, hn>>

\* merkle.rs:309 -- debug_assert!/debug_assert_le! are compiled in by a debug
\* (test) build and compiled out by a release (bench) build
DebugAssertions == build = "debug"

\* a debug build also panics on integer overflow; a release build wraps
OverflowChecks == build = "debug"

\* usize::MAX, the value 0usize - 1 wraps to in a build without overflow
\* checks.  It only occurs as a quotient x / usize::MAX with x either 0 or
\* usize::MAX, as a node index compared with the indices of the array, and as
\* a node index whose height is compared with 0 (it is not the root).
usize_MAX == 2147483647

\* --------------------------------------------------- generic sequence helpers
RECURSIVE SetToSortedSeq(_)
SetToSortedSeq(S) ==
    IF S = {} THEN <<>>
    ELSE LET lo == CHOOSE x \in S : \A y \in S : x <= y
         IN <<lo>> \o SetToSortedSeq(S \ {lo})

\* ------------------------------------------------ node_index.rs: NodeIndex
root_node == 0

is_root(n) == n = 0

\* A plausible slip: the parent of n computed without the "- 1".
parent_NoMinusOne(n, arity) == n \div arity

\* NodeIndex::parent; the caller checks the assert_ne!(self.0, 0) (ParentPanics)
parent(n, arity) == (n - 1) \div arity

ParentPanics(n) == n = 0

\* NodeIndex::child; the asserts on i are ChildPanics
child(n, arity, i) == n * arity + (i + 1)

ChildPanics(arity, i) == ~(i < arity) \/ ~(i >= 0)

\* NodeIndex::child_offset
child_offset(n, arity) == IF is_root(n) THEN 0 ELSE n % arity

\* ------------------------------------------------------- lib.rs: max_leaves
\* arity.pow(height as u32); pow(0) is 1 for every base, 0 included
max_leaves(arity, height) == IF height = 0 THEN 1 ELSE arity ^ height

\* lib.rs random_updates: the data of the i-th update is prefix + "/" + i,
\* encoded here as the number prefix * 100 + i (i is 0-based)
leaf_string(prefix, i) == prefix * 100 + i

random_updates(positions, prefix) ==
    [j \in 1..Len(positions) |->
        [pos |-> positions[j], data |-> leaf_string(prefix, j - 1)]]

\* --------------------------------------------- merkle_crhf.rs: CRHF policy
\* MerkleHashValue::default(): 32 zero bytes
DefaultHash == [tag |-> "default", data |-> 0, kids |-> <<>>]

HasherCRHF_new(arity) == [kind |-> "crhf", num_hashes |-> 0, arity |-> arity]

get_num_computations(hasher) == hasher.num_hashes

\* HasherCRHF::hash_leaf_data: H("leaf:" || data); the offset is ignored
HasherCRHF_hash_leaf_data(hasher, offset, data) ==
    [hasher |-> [hasher EXCEPT !.num_hashes = @ + 1],
     hash   |-> [tag |-> "leaf", data |-> data, kids |-> <<>>]]

\* the loop "old_children[*pos] = hash.clone()" over new_children, in order;
\* old_children is a Vec (0-based), held here as a 1-based sequence.  The
\* loop writes to the caller's Vec (&mut) and ends at the first position past
\* the end of the Vec, where the indexing panics.
RECURSIVE ReplaceChildren(_, _)
ReplaceChildren(old_children, new_children) ==
    IF new_children = <<>> \/ Head(new_children).off >= Len(old_children)
    THEN old_children
    ELSE ReplaceChildren(
            [old_children EXCEPT ![Head(new_children).off + 1] = Head(new_children).hash],
            Tail(new_children))

\* HasherCRHF::hash_nodes: H("internal:" || child_0 || ... ); panics when the
\* assert_le! fails or when a position indexes past the end of old_children
HasherCRHF_hash_nodes(hasher, old_parent_hash, old_children, new_children) ==
    LET h1 == [hasher EXCEPT !.num_hashes = @ + 1]
        oob == \E j \in 1..Len(new_children) : new_children[j].off >= Len(old_children)
    IN IF ~(Len(old_children) <= hasher.arity)
       THEN [hasher |-> h1, hash |-> DefaultHash, panic |-> "assert_le"]
       ELSE IF oob
       THEN [hasher |-> h1, hash |-> DefaultHash, panic |-> "index_out_of_bounds"]
       ELSE [hasher |-> h1,
             hash   |-> [tag |-> "internal", data |-> 0,
                         kids |-> ReplaceChildren(old_children, new_children)],
             panic  |-> ""]

\* ------------------------------------- merkle_pp.rs: Incremental policy
\* An incremental hash (SmallIncHash / FastIncHash) is an element of an
\* abelian group into which byte strings are hashed.  It is modelled as an
\* element of the free abelian group over the hashed byte strings: a set of
\* [term, coef] records with one record per term and no zero coefficient.
\* Two incremental hashes are equal exactly when they are the same
\* combination of hashed inputs.
IncHash_default == {}

\* FastIncHash::from(bytes)
IncHash_from(bytes) == {[term |-> bytes, coef |-> 1]}

IncHash_coef(a, t) ==
    IF \E x \in a : x.term = t THEN (CHOOSE x \in a : x.term = t).coef ELSE 0

\* AddAssign: a += b
IncHash_add(a, b) ==
    {[term |-> t, coef |-> IncHash_coef(a, t) + IncHash_coef(b, t)] :
        t \in {u \in {x.term : x \in a \cup b} :
                  IncHash_coef(a, u) + IncHash_coef(b, u) # 0}}

\* SubAssign: a -= b
IncHash_sub(a, b) ==
    {[term |-> t, coef |-> IncHash_coef(a, t) - IncHash_coef(b, t)] :
        t \in {u \in {x.term : x \in a \cup b} :
                  IncHash_coef(a, u) - IncHash_coef(b, u) # 0}}

\* the enum MerkleppHashValue: InternalThin(incr_hash) and Leaf(bytes)
InternalThin(incr_hash) == [tag |-> "InternalThin", data |-> 0, acc |-> incr_hash]

Leaf(data) == [tag |-> "Leaf", data |-> data, acc |-> {}]

\* MerkleppHashValue::default()
MerkleppHashValue_default == InternalThin(IncHash_default)

IncrementalHasher_new(arity, is_fat) ==
    [kind |-> "incremental", num_hashes |-> 0, arity |-> arity, is_fat |-> is_fat]

\* hash_child(i, child_hash): the bytes of the child digest followed by the
\* bytes of i, hashed into the group; the bytes of a digest are the 32 bytes
\* of its accumulator or of its leaf hash
hash_child(i, child_hash) == IncHash_from([i |-> i, bytes |-> child_hash])

\* A plausible slip: leaf hashes are counted, as HasherCRHF counts them.
IncrementalHasher_hash_leaf_data_Counting(hasher, offset, data) ==
    [hasher |-> [hasher EXCEPT !.num_hashes = @ + 1], hash |-> Leaf(data)]

\* IncrementalHasher::hash_leaf_data: Blake2b("leaf:" || data); the offset is
\* ignored and the counter is left alone
IncrementalHasher_hash_leaf_data(hasher, offset, data) ==
    [hasher |-> hasher, hash |-> Leaf(data)]

\* the loop "acc += hash_child(i, &old_children[i])" of the recompute branch
RECURSIVE sum_children(_, _)
sum_children(children, i) ==
    IF i >= Len(children) THEN IncHash_default
    ELSE IncHash_add(hash_child(i, children[i + 1]), sum_children(children, i + 1))

\* A plausible slip: "acc =" instead of "acc -=" in the loop body, so every
\* change starts from an empty accumulator and only the last one survives.
RECURSIVE delta_children_Overwriting(_, _, _)
delta_children_Overwriting(acc, old_children, new_children) ==
    IF new_children = <<>> THEN acc
    ELSE LET pos == Head(new_children).off
             a1 == IncHash_sub(IncHash_default, hash_child(pos, old_children[pos + 1]))
             a2 == IncHash_add(a1, hash_child(pos, Head(new_children).hash))
         IN delta_children_Overwriting(a2, old_children, Tail(new_children))

\* the loop "acc -= hash_child(pos, old); acc += hash_child(pos, new)" of the
\* delta branch
RECURSIVE delta_children(_, _, _)
delta_children(acc, old_children, new_children) ==
    IF new_children = <<>> THEN acc
    ELSE LET pos == Head(new_children).off
             a1 == IncHash_sub(acc, hash_child(pos, old_children[pos + 1]))
             a2 == IncHash_add(a1, hash_child(pos, Head(new_children).hash))
         IN delta_children(a2, old_children, Tail(new_children))

\* the test "num_changes > self.arity / 2"
IncrementalHasher_recomputes(hasher, num_changes) == num_changes > hasher.arity \div 2

\* lib.rs HistogramAverages::add(idx, time) on a histogram of len entries:
\* debug_assert_gt!(idx, 0); debug_assert_lt!(idx - 1, len);
\* self.average[idx - 1].  In a build without these assertions idx = 0 wraps
\* to the index usize::MAX, past the end like every idx > len.
HistogramAverages_add_panic(len, idx) ==
    IF DebugAssertions /\ ~(idx > 0) THEN "debug_assert_gt"
    ELSE IF DebugAssertions /\ ~(idx - 1 < len) THEN "debug_assert_lt"
    ELSE IF idx = 0 \/ ~(idx - 1 < len) THEN "index_out_of_bounds"
    ELSE ""

\* the last step of IncrementalHasher::hash_nodes (line 190):
\* self.hash_nodes_histogram.add(new_children.len(), ..), on the histogram of
\* arity entries built by IncrementalHasher::new; r is the result so far
IncrementalHasher_histogram_add(r, why) ==
    IF r.panic # "" \/ why = "" THEN r
    ELSE [hasher |-> r.hasher, hash |-> MerkleppHashValue_default, panic |-> why]

\* the body of IncrementalHasher::hash_nodes up to the histogram
IncrementalHasher_hash_nodes_body(hasher, old_parent_hash, old_children, new_children) ==
    LET num_changes == Len(new_children)
        oob == \E j \in 1..Len(new_children) : new_children[j].off >= Len(old_children)
        fail(why) == [hasher |-> hasher, hash |-> MerkleppHashValue_default, panic |-> why]
    IN IF IncrementalHasher_recomputes(hasher, num_changes)
       THEN IF oob THEN fail("index_out_of_bounds")
            ELSE IF Len(old_children) # hasher.arity THEN fail("assert_eq_arity")
            ELSE [hasher |-> [hasher EXCEPT !.num_hashes = @ + hasher.arity],
                  hash   |-> InternalThin(IncHash_add(IncHash_default,
                                sum_children(ReplaceChildren(old_children, new_children), 0))),
                  panic  |-> ""]
       ELSE IF old_parent_hash.tag # "InternalThin" THEN fail("unreachable")
            ELSE IF oob THEN fail("index_out_of_bounds")
            ELSE IF ~(2 * num_changes <= hasher.arity) THEN fail("assert_le")
            ELSE [hasher |-> [hasher EXCEPT !.num_hashes = @ + 2 * num_changes],
                  hash   |-> InternalThin(IncHash_add(old_parent_hash.acc,
                                delta_children(IncHash_default, old_children, new_children))),
                  panic  |-> ""]

\* IncrementalHasher::hash_nodes
IncrementalHasher_hash_nodes(hasher, old_parent_hash, old_children, new_children) ==
    IncrementalHasher_histogram_add(
        IncrementalHasher_hash_nodes_body(hasher, old_parent_hash, old_children,
                                          new_children),
        HistogramAverages_add_panic(hasher.arity, Len(new_children)))

\* ------------------------------ verkle.rs: VectorCommitment (Verkle) policy
\* A Scalar is an element of the prime-order scalar field; the scalars that
\* occur are hash outputs and their sums and differences.  As for the
\* incremental hashes, a scalar is modelled as an element of the free abelian
\* group over the hashed inputs (a set of [term, coef] records): two scalars
\* are equal exactly when they are the same combination of hash outputs.
\* Scalar::from_hash / Scalar::hash_from_bytes
Scalar_from_hash(bytes) == {[term |-> bytes, coef |-> 1]}

\* Scalar subtraction and addition
Scalar_sub(a, b) == IncHash_sub(a, b)

Scalar_add(a, b) == IncHash_add(a, b)

\* the enum VerkleComm: Internal(group element), Leaf(scalar), Empty
VerkleComm_Internal(gelem) == [tag |-> "Internal", scalar |-> {}, gelem |-> gelem]

VerkleComm_Leaf(scalar) == [tag |-> "Leaf", scalar |-> scalar, gelem |-> {}]

VerkleComm_Empty == [tag |-> "Empty", scalar |-> {}, gelem |-> {}]

\* VerkleComm::default()
VerkleComm_default == VerkleComm_Empty

\* The bases are independent group generators, each known by its number; a
\* vector of bases is the sequence of these numbers.
\* main.rs:110-111: the caller draws arity random bases
RandomBases(arity) == [i \in 1..arity |-> i - 1]

\* VerkleHasher::new(arity, bases): one base table per base, whatever the arity
VerkleHasher_new(arity, bases) ==
    [kind |-> "verkle", num_hashes |-> 0, arity |-> arity, base_tables |-> bases]

\* hash_to_scalar(gelem): the hash of the serialized group element
hash_to_scalar(gelem) == Scalar_from_hash([kind |-> "gelem", data |-> 0, gelem |-> gelem])

\* VerkleHasher::hash_leaf_data: Leaf(Scalar::from_hash(Blake2b("leaf:" || data)));
\* the offset is ignored and the counter is left alone
VerkleHasher_hash_leaf_data(hasher, offset, data) ==
    [hasher |-> hasher,
     hash   |-> VerkleComm_Leaf(Scalar_from_hash([kind |-> "leaf", data |-> data,
                                                    gelem |-> {}]))]

\* A group element is a combination of the arity independent bases: the set
\* of [base, exp] records with one record per base and no zero exponent.
\* FastGroupElem::identity()
GroupElem_identity == {}

GroupElem_exp(g, index) ==
    IF \E x \in g : x.base = index THEN (CHOOSE x \in g : x.base = index).exp ELSE {}

\* delta += base_tables[index] * exp
GroupElem_add_mul(delta, index, exp) ==
    LET e == Scalar_add(GroupElem_exp(delta, index), exp)
    IN {x \in delta : x.base # index}
       \cup (IF e = {} THEN {} ELSE {[base |-> index, exp |-> e]})

\* A plausible slip: the (Leaf, Leaf) arm takes the new scalar instead of the
\* difference of the new and the old one.
verkle_child_update_NoSubtract(old_child, new_child) ==
    LET fail == [panic |-> "panic_tag_pair", exp |-> {}]
        ok(exp) == [panic |-> "", exp |-> exp]
    IN CASE old_child.tag = "Empty" /\ new_child.tag = "Empty" -> fail
         [] old_child.tag = "Empty" /\ new_child.tag = "Internal" ->
                ok(hash_to_scalar(new_child.gelem))
         [] old_child.tag = "Empty" /\ new_child.tag = "Leaf" -> ok(new_child.scalar)
         [] old_child.tag = "Internal" /\ new_child.tag = "Empty" -> fail
         [] old_child.tag = "Internal" /\ new_child.tag = "Internal" ->
                ok(Scalar_sub(hash_to_scalar(new_child.gelem),
                              hash_to_scalar(old_child.gelem)))
         [] old_child.tag = "Internal" /\ new_child.tag = "Leaf" -> fail
         [] old_child.tag = "Leaf" /\ new_child.tag = "Empty" -> fail
         [] old_child.tag = "Leaf" /\ new_child.tag = "Internal" -> fail
         [] old_child.tag = "Leaf" /\ new_child.tag = "Leaf" -> ok(new_child.scalar)

\* the match on (old_children[*offset], new_child_elem): the scalar pushed to
\* "updates", or a panic!
verkle_child_update(old_child, new_child) ==
    LET fail == [panic |-> "panic_tag_pair", exp |-> {}]
        ok(exp) == [panic |-> "", exp |-> exp]
    IN CASE old_child.tag = "Empty" /\ new_child.tag = "Empty" -> fail
         [] old_child.tag = "Empty" /\ new_child.tag = "Internal" ->
                ok(hash_to_scalar(new_child.gelem))
         [] old_child.tag = "Empty" /\ new_child.tag = "Leaf" -> ok(new_child.scalar)
         [] old_child.tag = "Internal" /\ new_child.tag = "Empty" -> fail
         [] old_child.tag = "Internal" /\ new_child.tag = "Internal" ->
                ok(Scalar_sub(hash_to_scalar(new_child.gelem),
                              hash_to_scalar(old_child.gelem)))
         [] old_child.tag = "Internal" /\ new_child.tag = "Leaf" -> fail
         [] old_child.tag = "Leaf" /\ new_child.tag = "Empty" -> fail
         [] old_child.tag = "Leaf" /\ new_child.tag = "Internal" -> fail
         [] old_child.tag = "Leaf" /\ new_child.tag = "Leaf" ->
                ok(Scalar_sub(new_child.scalar, old_child.scalar))

\* the loop "for (offset, new_child_elem) in new_children" that fills the
\* vector "updates"; it stops at the first index or tag-pair panic
RECURSIVE verkle_updates(_, _, _)
verkle_updates(updates, old_children, new_children) ==
    IF new_children = <<>> THEN [updates |-> updates, panic |-> ""]
    ELSE LET offset == Head(new_children).off
         IN IF offset >= Len(old_children)
            THEN [updates |-> updates, panic |-> "index_out_of_bounds"]
            ELSE LET u == verkle_child_update(old_children[offset + 1],
                                              Head(new_children).hash)
                 IN IF u.panic # "" THEN [updates |-> updates, panic |-> u.panic]
                    ELSE verkle_updates(Append(updates, [index |-> offset, exp |-> u.exp]),
                                        old_children, Tail(new_children))

\* the cutoff "updates.len() <= 4" (line 172): up to this many updates are
\* multiplied one by one, more go to the multiscalar multiplication
SerialCutoff == 4

\* self.base_tables[index] (line 178): an index that has no table is a
\* panic.  The precomputation of line 66 is built from the same bases and is
\* taken to index its tables in the same way (its code is in a library).
base_table_missing(base_tables, updates) ==
    \E j \in 1..Len(updates) : ~(updates[j].index < Len(base_tables))

\* the loop "for (index, exp) in updates { delta += base_tables[index] * exp }"
\* (base_tables is a Vec, held here as a 1-based sequence)
RECURSIVE serial_mul(_, _, _)
serial_mul(base_tables, delta, updates) ==
    IF updates = <<>> THEN delta
    ELSE serial_mul(base_tables,
                    GroupElem_add_mul(delta, base_tables[Head(updates).index + 1],
                                      Head(updates).exp),
                    Tail(updates))

\* precomp.vartime_subset_multiscalar_mul(updates): the sum over the updates
\* of bases[index] * exp, accumulated from the last update to the first
RECURSIVE vartime_subset_multiscalar_mul(_, _)
vartime_subset_multiscalar_mul(bases, updates) ==
    IF updates = <<>> THEN GroupElem_identity
    ELSE GroupElem_add_mul(vartime_subset_multiscalar_mul(bases, Tail(updates)),
                           bases[Head(updates).index + 1], Head(updates).exp)

\* the tail of VerkleHasher::hash_nodes, from "self.num_hashes += updates.len()"
\* to the match on old_parent_comm
verkle_commit(hasher, old_parent_comm, updates) ==
    LET h1 == [hasher EXCEPT !.num_hashes = @ + Len(updates)]
    IN IF base_table_missing(hasher.base_tables, updates)
       THEN [hasher |-> h1, hash |-> VerkleComm_default, panic |-> "index_out_of_bounds"]
       ELSE IF old_parent_comm.tag = "Internal"
       THEN [hasher |-> h1, hash |-> VerkleComm_default, panic |-> "unreachable_internal"]
       ELSE IF old_parent_comm.tag = "Leaf"
       THEN [hasher |-> h1, hash |-> VerkleComm_default, panic |-> "unreachable_leaf"]
       ELSE [hasher |-> h1,
             hash |-> VerkleComm_Internal(
                         IF Len(updates) <= SerialCutoff
                         THEN serial_mul(hasher.base_tables, GroupElem_identity, updates)
                         ELSE vartime_subset_multiscalar_mul(hasher.base_tables,
                                                             updates)),
             panic |-> ""]

\* the head of VerkleHasher::hash_nodes, given the outcome u of the loop that
\* fills "updates"
verkle_after_updates(hasher, old_parent_comm, new_children, u) ==
    IF ~(Len(new_children) <= hasher.arity)
    THEN [hasher |-> hasher, hash |-> VerkleComm_default, panic |-> "assert_le"]
    ELSE IF u.panic # ""
    THEN [hasher |-> hasher, hash |-> VerkleComm_default, panic |-> u.panic]
    ELSE verkle_commit(hasher, old_parent_comm, u.updates)

\* VerkleHasher::hash_nodes
VerkleHasher_hash_nodes(hasher, old_parent_comm, old_children, new_children) ==
    verkle_after_updates(hasher, old_parent_comm, new_children,
                         verkle_updates(<<>>, old_children, new_children))

\* ------------------------------------ tree_hasher.rs: trait TreeHasherFunc
\* the calls self.hasher.hash_leaf_data / self.hasher.hash_nodes, dispatched
\* on the policy the tree was built with
TreeHasherFunc_hash_leaf_data(hasher, offset, data) ==
    IF hasher.kind = "crhf" THEN HasherCRHF_hash_leaf_data(hasher, offset, data)
    ELSE IF hasher.kind = "verkle" THEN VerkleHasher_hash_leaf_data(hasher, offset, data)
    ELSE IncrementalHasher_hash_leaf_data(hasher, offset, data)

TreeHasherFunc_hash_nodes(hasher, old_parent_hash, old_children, new_children) ==
    IF hasher.kind = "crhf"
    THEN HasherCRHF_hash_nodes(hasher, old_parent_hash, old_children, new_children)
    ELSE IF hasher.kind = "verkle"
    THEN VerkleHasher_hash_nodes(hasher, old_parent_hash, old_children, new_children)
    ELSE IncrementalHasher_hash_nodes(hasher, old_parent_hash, old_children, new_children)

\* old_children (&mut Vec) as hasher.hash_nodes(old_parent, &mut old_children,
\* &new_children) leaves it to its caller.  HasherCRHF::hash_nodes overwrites
\* the changed positions after its assert_le! (merkle_crhf.rs:134-141),
\* IncrementalHasher::hash_nodes overwrites them in the recompute branch
\* (merkle_pp.rs:144-156) and only reads in the delta branch, and
\* VerkleHasher::hash_nodes only borrows the entries.
TreeHasherFunc_old_children_after(hasher, old_children, new_children) ==
    IF hasher.kind = "crhf"
    THEN IF Len(old_children) <= hasher.arity
         THEN ReplaceChildren(old_children, new_children)
         ELSE old_children
    ELSE IF hasher.kind = "verkle" THEN old_children
    ELSE IF IncrementalHasher_recomputes(hasher, Len(new_children))
    THEN ReplaceChildren(old_children, new_children)
    ELSE old_children

\* ------------------------------------------- merkle.rs: with_num_leaves
\* the "while n / arity > 0" loop
RECURSIVE tree_height(_, _)
tree_height(n, arity) ==
    IF n \div arity > 0 THEN 1 + tree_height(n \div arity, arity) ELSE 0

\* A plausible slip: the candidate epsilon is left out of the numerator.
r_num_f_NoEpsilon(last_level_max_size, num_leaves, arity, e) ==
    last_level_max_size - num_leaves - arity

r_num_f(last_level_max_size, num_leaves, arity, e) ==
    last_level_max_size - num_leaves - (arity - e)

\* A plausible slip: the search accepts the lowest candidate that divides.
find_epsilon_Lowest(last_level_max_size, num_leaves, arity, epsilon) ==
    LET ok == {e \in 1..arity :
                 (last_level_max_size - num_leaves - (arity - e)) % (arity - 1) = 0}
    IN IF ok = {} THEN 0 ELSE CHOOSE e \in ok : \A f \in ok : e <= f

\* the "while r_num % r_denom != 0" search; 0 stands for the "math fail" panic
RECURSIVE find_epsilon(_, _, _, _)
find_epsilon(last_level_max_size, num_leaves, arity, epsilon) ==
    IF r_num_f(last_level_max_size, num_leaves, arity, epsilon) % (arity - 1) # 0
    THEN IF epsilon - 1 = 0 THEN 0
         ELSE find_epsilon(last_level_max_size, num_leaves, arity, epsilon - 1)
    ELSE epsilon

\* the local variables of with_num_leaves after its layout computation
\* (lines 77-147), for arity >= 2
with_num_leaves_locals(arity, num_leaves) ==
    LET height == tree_height(num_leaves, arity)
        maxl == max_leaves(arity, height)
        last_level_max_size == maxl * arity
        two == num_leaves > maxl
        search == two /\ last_level_max_size - num_leaves >= arity
        epsilon == IF search
                   THEN find_epsilon(last_level_max_size, num_leaves, arity, arity)
                   ELSE arity
        num_second_to_last ==
            IF search
            THEN r_num_f(last_level_max_size, num_leaves, arity, epsilon) \div (arity - 1)
            ELSE 0
        num_last == IF search
                    THEN (maxl - num_second_to_last - 1) * arity + epsilon
                    ELSE num_leaves
        num_internal_nodes ==
            IF two
            THEN (maxl - 1) \div (arity - 1) + maxl - num_second_to_last
            ELSE (maxl - 1) \div (arity - 1)
    IN [height |-> height,
        max_leaves |-> maxl,
        last_level_max_size |-> last_level_max_size,
        two |-> two,
        search |-> search,
        epsilon |-> epsilon,
        num_second_to_last |-> num_second_to_last,
        num_last |-> num_last,
        num_internal_nodes |-> num_internal_nodes,
        total_nodes |-> num_internal_nodes + num_leaves,
        first_last_level_leaf |->
            IF two THEN num_internal_nodes + num_second_to_last
            ELSE num_internal_nodes,
        panic |-> IF search /\ epsilon = 0 THEN "math_fail"
                  ELSE IF two /\ num_second_to_last + num_last # num_leaves
                  THEN "assert_eq"
                  ELSE ""]

\* HashType::default() of the policy's digest type
HashType_default(hasher) ==
    IF hasher.kind = "crhf" THEN DefaultHash
    ELSE IF hasher.kind = "verkle" THEN VerkleComm_default
    ELSE MerkleppHashValue_default

\* with_num_leaves(arity, num_leaves, hasher), for arity >= 2
with_num_leaves(arity, num_leaves, hasher) ==
    LET l == with_num_leaves_locals(arity, num_leaves)
    IN [arity |-> arity,
        num_internal_nodes |-> l.num_internal_nodes,
        num_leaves |-> num_leaves,
        nodes |-> [i \in 0..(l.total_nodes - 1) |-> HashType_default(hasher)],
        hasher |-> hasher,
        first_last_level_leaf |-> l.first_last_level_leaf,
        hashed_nodes |-> {},
        panic |-> l.panic,
        log |-> <<>>]

\* A plausible slip: the height is passed on where the leaf count is expected.
new_HeightAsNumLeaves(arity, height, hasher) ==
    with_num_leaves(arity, height, hasher)

\* AbstractMerkle::new(arity, height, hasher)
new(arity, height, hasher) ==
    with_num_leaves(arity, max_leaves(arity, height), hasher)

\* merkle_crhf.rs new_merkle_crhf_from_leaves
new_merkle_crhf_from_leaves(arity, num_leaves) ==
    with_num_leaves(arity, num_leaves, HasherCRHF_new(arity))

\* merkle_pp.rs new_merklepp_from_leaves
new_merklepp_from_leaves(arity, num_leaves, is_fat) ==
    with_num_leaves(arity, num_leaves, IncrementalHasher_new(arity, is_fat))

\* verkle.rs new_verkle_from_leaves
new_verkle_from_leaves(arity, num_leaves, bases) ==
    with_num_leaves(arity, num_leaves, VerkleHasher_new(arity, bases))

\* -------------------------------------------------- merkle.rs: accessors
nodes_len(m) == Cardinality(DOMAIN m.nodes)

\* get_node_hash returns None for an index past the end of the array
has_node(m, node) == node \in DOMAIN m.nodes

get_node_hash(m, node) == m.nodes[node]

\* set_node_hash: nodes[node.0] = hash (an index past the end panics, see
\* write_new_siblings); the write is recorded in the log of the call
set_node_hash(m, node, hash) ==
    [m EXCEPT !.nodes = [@ EXCEPT ![node] = hash],
              !.log = Append(@, [ev |-> "write", idx |-> node, hash |-> hash])]

\* is_leaf: node.0 > self.num_internal_nodes - 1, where the subtraction wraps
\* to usize::MAX on a tree without internal nodes (see is_leaf_overflows for
\* the build that panics instead)
is_leaf(m, node) ==
    node > (IF m.num_internal_nodes = 0 THEN usize_MAX ELSE m.num_internal_nodes - 1)

\* "self.num_internal_nodes - 1" on a tree without internal nodes: usize
\* subtraction below zero, a panic in a build with overflow checks
is_leaf_overflows(m) == m.num_internal_nodes = 0

RECURSIVE get_node_height(_, _)
get_node_height(m, node) ==
    IF is_root(node) THEN 0 ELSE 1 + get_node_height(m, parent(node, m.arity))

\* debug_assert_ne!(self.num_leaves, 0) at the head of
\* has_leaves_on_two_levels
has_leaves_on_two_levels_panic(m) ==
    IF DebugAssertions /\ m.num_leaves = 0 THEN "debug_assert_ne" ELSE ""

\* has_leaves_on_two_levels; on an empty array "self.nodes.len() - 1" wraps to
\* usize::MAX (reached only when the assertion above is compiled out)
has_leaves_on_two_levels(m) ==
    LET last_leaf == IF nodes_len(m) = 0 THEN usize_MAX ELSE nodes_len(m) - 1
        first_leaf == nodes_len(m) - m.num_leaves
    IN get_node_height(m, first_leaf) # get_node_height(m, last_leaf)

is_last_level_leaf(m, leaf_idx) == leaf_idx >= m.first_last_level_leaf

\* A plausible slip: the perfect-tree formula of the comment in get_leaf_idx.
get_leaf_idx_Perfect(m, leaf_pos) ==
    (m.num_leaves - 1) \div (m.arity - 1) + leaf_pos

get_leaf_idx(m, leaf_pos) == m.num_internal_nodes + leaf_pos

get_leaf_pos(m, leaf_idx) == leaf_idx - m.num_internal_nodes

Panic(m, why) == [m EXCEPT !.panic = IF @ = "" THEN why ELSE @]

\* ------------------------------------------------------ merkle.rs: _queuefy
\* A plausible slip: the new leaf digest is committed to the array while the
\* leaf is queued, before its parent has been combined.
queuefy_one_Committing(s, upd) ==
    LET m == s.m
        leaf_idx == get_leaf_idx(m, upd.pos)
        offset == child_offset(leaf_idx, m.arity)
        r == TreeHasherFunc_hash_leaf_data(m.hasher, offset, upd.data)
        m1 == [m EXCEPT !.hashed_nodes = @ \cup {leaf_idx},
                        !.hasher = r.hasher,
                        !.log = Append(@, [ev |-> "hash_leaf", idx |-> leaf_idx,
                                            hash |-> r.hash])]
    IN IF DebugAssertions /\ is_leaf_overflows(m)
       THEN [m |-> Panic(m, "subtract_with_overflow"), q |-> s.q]
       ELSE IF DebugAssertions /\ ~is_leaf(m, leaf_idx)
       THEN [m |-> Panic(m, "debug_assert_is_leaf"), q |-> s.q]
       ELSE IF DebugAssertions /\ leaf_idx \in m.hashed_nodes
       THEN [m |-> Panic(m, "hashed_twice"), q |-> s.q]
       ELSE [m |-> set_node_hash(IF DebugAssertions THEN m1
                                 ELSE [m1 EXCEPT !.hashed_nodes = m.hashed_nodes],
                                 leaf_idx, r.hash),
             q |-> Append(s.q, [idx |-> leaf_idx, hash |-> r.hash])]

\* One closure call of the map in _queuefy: hashes a leaf and queues it.
\* s = [m, q]; the _hashed_nodes.insert sits inside a debug_assert!
queuefy_one(s, upd) ==
    LET m == s.m
        leaf_idx == get_leaf_idx(m, upd.pos)
        offset == child_offset(leaf_idx, m.arity)
        r == TreeHasherFunc_hash_leaf_data(m.hasher, offset, upd.data)
        m1 == [m EXCEPT !.hashed_nodes = @ \cup {leaf_idx},
                        !.hasher = r.hasher,
                        !.log = Append(@, [ev |-> "hash_leaf", idx |-> leaf_idx,
                                            hash |-> r.hash])]
    IN IF DebugAssertions /\ is_leaf_overflows(m)
       THEN [m |-> Panic(m, "subtract_with_overflow"), q |-> s.q]
       ELSE IF DebugAssertions /\ ~is_leaf(m, leaf_idx)
       THEN [m |-> Panic(m, "debug_assert_is_leaf"), q |-> s.q]
       ELSE IF DebugAssertions /\ leaf_idx \in m.hashed_nodes
       THEN [m |-> Panic(m, "hashed_twice"), q |-> s.q]
       ELSE [m |-> IF DebugAssertions THEN m1
                   ELSE [m1 EXCEPT !.hashed_nodes = m.hashed_nodes],
             q |-> Append(s.q, [idx |-> leaf_idx, hash |-> r.hash])]

RECURSIVE queuefy_from(_, _)
queuefy_from(s, upds) ==
    IF upds = <<>> \/ s.m.panic # "" THEN s
    ELSE queuefy_from(queuefy_one(s, Head(upds)), Tail(upds))

\* _queuefy(&mut self, upds) -> VecDeque<(NodeIndex, HashType)>
queuefy(m, upds) == queuefy_from([m |-> m, q |-> <<>>], upds)

\* -------------------------------------------------- merkle.rs: pop_sibling
\* s = [m, dq, sibs]; pops the front of dq and records (offset, hash)
\* for an entry that is not the root the code evaluates self.is_leaf(&sib_idx)
\* before the push, which panics on a tree without internal nodes in a build
\* with overflow checks
pop_sibling(s) ==
    LET sib == Head(s.dq)
        sib_offset == child_offset(sib.idx, s.m.arity)
        popped == [s.m EXCEPT !.log = Append(@, [ev |-> "pop", idx |-> sib.idx,
                                                   hash |-> sib.hash])]
    IN IF ~is_root(sib.idx) /\ OverflowChecks /\ is_leaf_overflows(s.m)
       THEN [m    |-> Panic(popped, "subtract_with_overflow"),
             dq   |-> Tail(s.dq),
             sibs |-> s.sibs]
       ELSE [m    |-> popped,
             dq   |-> Tail(s.dq),
             sibs |-> Append(s.sibs, [off |-> sib_offset, hash |-> sib.hash])]

\* A plausible slip: the queue front is compared with the parent itself, so
\* no second sibling is ever grouped with the first.
is_actual_sibling_NoGrouping(potential_sib, parent_idx, arity) ==
    potential_sib = parent_idx

\* the test "self.parent_node(&potential_sib) == parent_idx"
is_actual_sibling(potential_sib, parent_idx, arity) ==
    parent(potential_sib, arity) = parent_idx

\* the inner "while !dequeue.is_empty()" loop that pops all other siblings
RECURSIVE pop_other_siblings(_, _)
pop_other_siblings(s, parent_idx) ==
    IF s.dq = <<>> \/ s.m.panic # "" THEN s
    ELSE IF ParentPanics(Head(s.dq).idx)
    THEN [s EXCEPT !.m = Panic(@, "parent_of_root")]
    ELSE IF is_actual_sibling(Head(s.dq).idx, parent_idx, s.m.arity)
    THEN pop_other_siblings(pop_sibling(s), parent_idx)
    ELSE s

\* the "for i in 0..self.arity" loop that collects the old child digests and
\* breaks at the first child that is not in the array
RECURSIVE collect_old_siblings(_, _, _)
collect_old_siblings(m, parent_idx, i) ==
    IF i < m.arity /\ has_node(m, child(parent_idx, m.arity, i))
    THEN <<get_node_hash(m, child(parent_idx, m.arity, i))>>
         \o collect_old_siblings(m, parent_idx, i + 1)
    ELSE <<>>

\* the "for (idx, hash) in &new_siblings" loop that writes the new digests
RECURSIVE write_new_siblings(_, _, _)
write_new_siblings(m, parent_idx, sibs) ==
    IF sibs = <<>> \/ m.panic # "" THEN m
    ELSE LET child_idx == child(parent_idx, m.arity, Head(sibs).off)
         IN IF ChildPanics(m.arity, Head(sibs).off) \/ ~has_node(m, child_idx)
            THEN Panic(m, "index_out_of_bounds")
            ELSE write_new_siblings(set_node_hash(m, child_idx, Head(sibs).hash),
                                    parent_idx, Tail(sibs))

\* the old_siblings collected by the loop of lines 428-461, as log events in
\* the order of the reads
child_read_events(m, parent_idx, old_siblings) ==
    [i \in 1..Len(old_siblings) |->
        [ev |-> "read", idx |-> child(parent_idx, m.arity, i - 1),
         hash |-> old_siblings[i]]]

\* the digests read from the array for one hash_nodes call, as log events in
\* the order of the reads: the old_siblings, then
\* self.get_node_hash(&parent_idx) of line 467
read_events(m, parent_idx, old_siblings) ==
    child_read_events(m, parent_idx, old_siblings)
    \o <<[ev |-> "read_parent", idx |-> parent_idx,
          hash |-> get_node_hash(m, parent_idx)]>>

\* ------------------------------------- merkle.rs: _process_update_queue
\* The end of one iteration, from the return of hash_nodes (result r) on: the
\* parent is queued and the new digests of its children are written.
\* m3 is the tree when hash_nodes was called, p2 the queue and the collected
\* siblings.
after_hash_nodes(s, p2, parent_idx, m3, r, use_enq) ==
    LET m4 == [m3 EXCEPT !.hasher = r.hasher,
                         !.log = Append(@, [ev |-> "hash_nodes", idx |-> parent_idx,
                                             hash |-> r.hash])]
        pushed == [idx |-> parent_idx, hash |-> r.hash]
    IN IF r.panic # ""
       THEN [m |-> Panic([m3 EXCEPT !.hasher = r.hasher], r.panic),
             dq |-> p2.dq, enq |-> s.enq]
       ELSE [m   |-> write_new_siblings(m4, parent_idx, p2.sibs),
             dq  |-> IF use_enq THEN p2.dq ELSE Append(p2.dq, pushed),
             enq |-> IF use_enq THEN Append(s.enq, pushed) ELSE s.enq]

\* The call of hash_nodes for the parent of the group p2 popped from the queue
\* (lines 426-470): the old child digests are collected, the parent is marked
\* as hashed and its old digest is read.
call_hash_nodes(s, p2, parent_idx, old_siblings, use_enq) ==
    LET m3 == [p2.m EXCEPT !.hashed_nodes = IF DebugAssertions
                                            THEN @ \cup {parent_idx} ELSE @,
                           !.log = @ \o read_events(p2.m, parent_idx, old_siblings)]
    IN after_hash_nodes(s, p2, parent_idx, m3,
           TreeHasherFunc_hash_nodes(m3.hasher, get_node_hash(m3, parent_idx),
                                     old_siblings, p2.sibs),
           use_enq)

\* The group of one parent: all queued siblings of the first one are popped
\* (p2) and combined.  The debug_assert_le! of line 424 comes before the old
\* child digests are read; the debug_assert! on _hashed_nodes.insert (line
\* 465) and the unwrap of the parent's digest (line 467) come after.
process_group(s, p2, parent_idx, use_enq) ==
    IF p2.m.panic # ""
    THEN [m |-> p2.m, dq |-> p2.dq, enq |-> s.enq]
    ELSE IF DebugAssertions /\ ~(Len(p2.sibs) <= s.m.arity)
    THEN [m |-> Panic(p2.m, "debug_assert_le"), dq |-> p2.dq, enq |-> s.enq]
    ELSE IF DebugAssertions /\ parent_idx \in p2.m.hashed_nodes
    THEN [m   |-> Panic([p2.m EXCEPT !.log = @ \o child_read_events(p2.m, parent_idx,
                                         collect_old_siblings(p2.m, parent_idx, 0))],
                        "hashed_twice"),
          dq  |-> p2.dq,
          enq |-> s.enq]
    ELSE IF ~has_node(p2.m, parent_idx)
    THEN [m   |-> Panic([p2.m EXCEPT !.hashed_nodes = IF DebugAssertions
                                                      THEN @ \cup {parent_idx} ELSE @,
                                     !.log = @ \o child_read_events(p2.m, parent_idx,
                                         collect_old_siblings(p2.m, parent_idx, 0))],
                        "unwrap_none"),
          dq  |-> p2.dq,
          enq |-> s.enq]
    ELSE call_hash_nodes(s, p2, parent_idx,
                         collect_old_siblings(p2.m, parent_idx, 0), use_enq)

\* the root branch of the iteration: the single queue entry is the new root
process_root(s, p1) ==
    IF DebugAssertions /\ Len(p1.sibs) # 1
    THEN [m |-> Panic(p1.m, "debug_assert_eq"), dq |-> p1.dq, enq |-> s.enq]
    ELSE IF ~has_node(p1.m, root_node)
    THEN [m |-> Panic(p1.m, "index_out_of_bounds"), dq |-> p1.dq, enq |-> s.enq]
    ELSE [m   |-> set_node_hash(p1.m, root_node, p1.sibs[1].hash),
          dq  |-> p1.dq,
          enq |-> s.enq]

\* the first sibling p1 has been popped
process_popped(s, p1, first_sib_idx, use_enq) ==
    IF p1.m.panic # ""
    THEN [m |-> p1.m, dq |-> p1.dq, enq |-> s.enq]
    ELSE IF ~is_root(first_sib_idx)
    THEN process_group(s, pop_other_siblings(p1, parent(first_sib_idx, s.m.arity)),
                       parent(first_sib_idx, s.m.arity), use_enq)
    ELSE process_root(s, p1)

\* One iteration of the outer "while !dequeue.is_empty()" loop.
\* s = [m, dq, enq]; use_enq says whether enqueue_opt is Some(enq).
process_update_queue_iter(s, use_enq) ==
    process_popped(s, pop_sibling([m |-> s.m, dq |-> s.dq, sibs |-> <<>>]),
                   Head(s.dq).idx, use_enq)

\* _process_update_queue(dequeue, enqueue_opt): runs until the queue is empty
\* or a panic unwinds the call
RECURSIVE process_update_queue(_, _)
process_update_queue(s, use_enq) ==
    IF s.dq = <<>> \/ s.m.panic # "" THEN s
    ELSE process_update_queue(process_update_queue_iter(s, use_enq), use_enq)

\* ------------------------------------------ merkle.rs: preprocess_leaves
\* the debug_assert! that the updates are sorted; "updates.len() - 1" on an
\* empty Vec overflows (a panic in a build with overflow checks)
sorted_check_panic(updates) ==
    IF ~DebugAssertions THEN ""
    ELSE IF Len(updates) = 0 THEN "subtract_with_overflow"
    ELSE IF \E i \in 1..(Len(updates) - 1) : ~(updates[i].pos <= updates[i + 1].pos)
    THEN "debug_assert_sorted"
    ELSE ""

\* updates.iter().position(is_last_level_leaf).unwrap_or(0), 0-based
first_last_level_leaf_pos(m, updates) ==
    LET hits == {j \in 1..Len(updates) :
                    is_last_level_leaf(m, get_leaf_idx(m, updates[j].pos))}
    IN IF hits = {} THEN 0
       ELSE (CHOOSE j \in hits : \A k \in hits : j <= k) - 1

\* A plausible slip: the queued second-to-last-level leaves are put in front
\* of the parents computed from the last level.
preprocess_two_levels_LeavesFirst(m, updates) ==
    LET split == first_last_level_leaf_pos(m, updates)
        second_to_last == SubSeq(updates, 1, split)
        last == SubSeq(updates, split + 1, Len(updates))
        tmp == queuefy(m, last)
        done == process_update_queue([m |-> tmp.m, dq |-> tmp.q, enq |-> <<>>], TRUE)
        rest == queuefy(done.m, second_to_last)
    IN IF tmp.m.panic # "" THEN [m |-> tmp.m, q |-> <<>>]
       ELSE IF done.m.panic # "" THEN [m |-> done.m, q |-> done.enq]
       ELSE [m |-> rest.m, q |-> rest.q \o done.enq]

\* the branch taken when the leaves are on two levels (lines 318-346)
preprocess_two_levels(m, updates) ==
    LET split == first_last_level_leaf_pos(m, updates)
        second_to_last == SubSeq(updates, 1, split)
        last == SubSeq(updates, split + 1, Len(updates))
        tmp == queuefy(m, last)
        done == process_update_queue([m |-> tmp.m, dq |-> tmp.q, enq |-> <<>>], TRUE)
        rest == queuefy(done.m, second_to_last)
    IN IF tmp.m.panic # "" THEN [m |-> tmp.m, q |-> <<>>]
       ELSE IF done.m.panic # "" THEN [m |-> done.m, q |-> done.enq]
       ELSE [m |-> rest.m, q |-> done.enq \o rest.q]

\* A plausible slip: the single-level branch also pre-resolves one level.
preprocess_one_level_Resolving(m, updates) == preprocess_two_levels(m, updates)

\* the branch taken when all leaves are on one level (lines 347-352)
preprocess_one_level(m, updates) == queuefy(m, updates)

\* A plausible slip: self._hashed_nodes.clear() is left out, so the set of
\* nodes hashed by earlier batches leaks into this one.
preprocess_leaves_NoClear(m, updates) ==
    LET why == sorted_check_panic(updates)
    IN IF why # "" THEN [m |-> Panic(m, why), q |-> <<>>]
       ELSE IF has_leaves_on_two_levels_panic(m) # ""
       THEN [m |-> Panic(m, has_leaves_on_two_levels_panic(m)), q |-> <<>>]
       ELSE IF has_leaves_on_two_levels(m) THEN preprocess_two_levels(m, updates)
       ELSE preprocess_one_level(m, updates)

\* preprocess_leaves(updates) -> (queue, duration); the result is [m, q]
preprocess_leaves(m, updates) ==
    LET m0 == [m EXCEPT !.hashed_nodes = {}]
        why == sorted_check_panic(updates)
    IN IF why # "" THEN [m |-> Panic(m0, why), q |-> <<>>]
       ELSE IF has_leaves_on_two_levels_panic(m0) # ""
       THEN [m |-> Panic(m0, has_leaves_on_two_levels_panic(m0)), q |-> <<>>]
       ELSE IF has_leaves_on_two_levels(m0) THEN preprocess_two_levels(m0, updates)
       ELSE preprocess_one_level(m0, updates)

\* A plausible slip: the queue is drained into a scratch queue, so parents are
\* never propagated further than one level.
update_preprocessed_leaves_OneLevel(m, curr_updates) ==
    process_update_queue([m |-> m, dq |-> curr_updates, enq |-> <<>>], TRUE).m

\* update_preprocessed_leaves(curr_updates)
update_preprocessed_leaves(m, curr_updates) ==
    process_update_queue([m |-> m, dq |-> curr_updates, enq |-> <<>>], FALSE).m

\* update_leaves(new_leaves)
update_leaves(m, new_leaves) ==
    LET r == preprocess_leaves(m, new_leaves)
    IN IF r.m.panic # "" THEN r.m
       ELSE process_update_queue([m |-> r.m, dq |-> r.q, enq |-> <<>>], FALSE).m

\* ===================================== merkle_abstract.rs: the perfect tree
\* The AbstractMerkle of merkle_abstract.rs: exactly arity^height leaves, the
\* digests of all nodes in one array, the updated siblings of one parent kept
\* in a BTreeMap keyed by child offset.  A tree is the record
\* [arity, n, nodes, hasher] with the panic and log fields of the model.

\* AbstractMerkle::new (lines 63-76), the subtractions wrapping: n - 1 on
\* n = 0 and arity - 1 on arity = 0 (merkle_abstract_new_run has the builds
\* in which they panic)
merkle_abstract_new(arity, height, hasher) ==
    LET n == max_leaves(arity, height)
        num == IF n = 0 THEN usize_MAX ELSE n - 1
        denom == IF arity = 0 THEN usize_MAX ELSE arity - 1
        total_nodes == (num \div denom) + n
    IN [arity  |-> arity,
        n      |-> n,
        nodes  |-> [i \in 0..(total_nodes - 1) |-> HashType_default(hasher)],
        hasher |-> hasher,
        panic  |-> "",
        log    |-> <<>>]

\* get_leaf_idx (lines 108-112): (self.num_leaves() - 1) / (self.arity - 1)
\* + leaf_pos; on the trees new returns the subtractions wrap exactly where
\* they wrapped in new
merkle_abstract_get_leaf_idx(t, leaf_pos) ==
    LET num == IF t.n = 0 THEN usize_MAX ELSE t.n - 1
        denom == IF t.arity = 0 THEN usize_MAX ELSE t.arity - 1
    IN (num \div denom) + leaf_pos

\* "self.0 % arity" of NodeIndex::child_offset on a node that is not the
\* root divides by zero when the arity is 0
child_offset_panics(n, arity) == ~is_root(n) /\ arity = 0

\* the assert! of line 132 (not a debug_assert!): on an empty batch
\* "updates.len() - 1" overflows, and where it wraps the range 0..usize::MAX
\* makes the closure read updates[0]
merkle_abstract_sorted_check_panic(updates) ==
    IF Len(updates) = 0
    THEN IF OverflowChecks THEN "subtract_with_overflow" ELSE "index_out_of_bounds"
    ELSE IF \E i \in 1..(Len(updates) - 1) : ~(updates[i].pos <= updates[i + 1].pos)
    THEN "assert_sorted"
    ELSE ""

\* the end of one closure call of the map of lines 136-149: r is the result
\* of hash_leaf_data
merkle_abstract_queue_hashed(s, leaf_idx, r) ==
    [m |-> [s.m EXCEPT !.hasher = r.hasher,
                       !.log = Append(@, [ev |-> "hash_leaf", idx |-> leaf_idx,
                                           hash |-> r.hash])],
     q |-> Append(s.q, [idx |-> leaf_idx, hash |-> r.hash])]

\* one closure call of the map of lines 136-149; s = [m, q]
merkle_abstract_queue_one(s, leaf_idx, data) ==
    IF child_offset_panics(leaf_idx, s.m.arity)
    THEN [m |-> Panic(s.m, "remainder_by_zero"), q |-> s.q]
    ELSE merkle_abstract_queue_hashed(s, leaf_idx,
             TreeHasherFunc_hash_leaf_data(s.m.hasher,
                                           child_offset(leaf_idx, s.m.arity), data))

RECURSIVE merkle_abstract_queue_from(_, _)
merkle_abstract_queue_from(s, upds) ==
    IF upds = <<>> \/ s.m.panic # "" THEN s
    ELSE merkle_abstract_queue_from(
             merkle_abstract_queue_one(s, merkle_abstract_get_leaf_idx(s.m, Head(upds).pos),
                                       Head(upds).data),
             Tail(upds))

\* BTreeMap::insert: the entries are kept in ascending key order and a key
\* that is present gets the new value
BTreeMap_insert(map, key, value) ==
    SelectSeq(map, LAMBDA e : e.off < key)
    \o <<[off |-> key, hash |-> value]>>
    \o SelectSeq(map, LAMBDA e : e.off > key)

\* the closure pop_sibling of lines 155-167; s = [m, dq, sibs]
merkle_abstract_pop_sibling(s) ==
    IF child_offset_panics(Head(s.dq).idx, s.m.arity)
    THEN [m |-> Panic(s.m, "remainder_by_zero"), dq |-> Tail(s.dq), sibs |-> s.sibs]
    ELSE [m    |-> [s.m EXCEPT !.log = Append(@, [ev |-> "pop", idx |-> Head(s.dq).idx,
                                                   hash |-> Head(s.dq).hash])],
          dq   |-> Tail(s.dq),
          sibs |-> BTreeMap_insert(s.sibs, child_offset(Head(s.dq).idx, s.m.arity),
                                   Head(s.dq).hash)]

\* the inner loop of lines 181-190
RECURSIVE merkle_abstract_pop_other_siblings(_, _)
merkle_abstract_pop_other_siblings(s, parent_idx) ==
    IF s.dq = <<>> \/ s.m.panic # "" THEN s
    ELSE IF ParentPanics(Head(s.dq).idx)
    THEN [s EXCEPT !.m = Panic(@, "parent_of_root")]
    ELSE IF is_actual_sibling(Head(s.dq).idx, parent_idx, s.m.arity)
    THEN merkle_abstract_pop_other_siblings(merkle_abstract_pop_sibling(s), parent_idx)
    ELSE s

\* the loop of lines 197-200: get_node_hash indexes the array (line 99), so
\* a child past its end is a panic
merkle_abstract_missing_child(m, parent_idx) ==
    \E i \in 0..(m.arity - 1) : ~has_node(m, child(parent_idx, m.arity, i))

merkle_abstract_old_siblings(m, parent_idx) ==
    [i \in 1..m.arity |-> get_node_hash(m, child(parent_idx, m.arity, i - 1))]

\* the digests read for one hash_nodes call, in the order of the reads
merkle_abstract_read_events(m, parent_idx, old_siblings) ==
    [i \in 1..Len(old_siblings) |->
        [ev |-> "read", idx |-> child(parent_idx, m.arity, i - 1),
         hash |-> old_siblings[i]]]
    \o <<[ev |-> "read_parent", idx |-> parent_idx,
          hash |-> get_node_hash(m, parent_idx)]>>

\* lines 203-216, from the return of hash_nodes (result r) on: the parent is
\* queued and the new digests of its children are written; m3 is the tree
\* when hash_nodes was called
merkle_abstract_after_hash_nodes(p2, parent_idx, m3, r) ==
    IF r.panic # ""
    THEN [m |-> Panic([m3 EXCEPT !.hasher = r.hasher], r.panic), dq |-> p2.dq]
    ELSE [m  |-> write_new_siblings(
                     [m3 EXCEPT !.hasher = r.hasher,
                                !.log = Append(@, [ev |-> "hash_nodes",
                                                    idx |-> parent_idx,
                                                    hash |-> r.hash])],
                     parent_idx, p2.sibs),
          dq |-> Append(p2.dq, [idx |-> parent_idx, hash |-> r.hash])]

merkle_abstract_call_hash_nodes(p2, parent_idx, old_siblings) ==
    merkle_abstract_after_hash_nodes(p2, parent_idx,
        [p2.m EXCEPT !.log = @ \o merkle_abstract_read_events(p2.m, parent_idx,
                                                              old_siblings)],
        TreeHasherFunc_hash_nodes(p2.m.hasher, get_node_hash(p2.m, parent_idx),
                                  old_siblings, p2.sibs))

\* the group of one parent (lines 193-216); p2 holds the popped siblings
merkle_abstract_process_group(p2, parent_idx) ==
    IF p2.m.panic # "" THEN [m |-> p2.m, dq |-> p2.dq]
    ELSE IF ~(Len(p2.sibs) <= p2.m.arity)
    THEN [m |-> Panic(p2.m, "assert_le"), dq |-> p2.dq]
    ELSE IF merkle_abstract_missing_child(p2.m, parent_idx) \/ ~has_node(p2.m, parent_idx)
    THEN [m |-> Panic(p2.m, "index_out_of_bounds"), dq |-> p2.dq]
    ELSE merkle_abstract_call_hash_nodes(p2, parent_idx,
                                         merkle_abstract_old_siblings(p2.m, parent_idx))

\* the root branch (lines 219-229): assert_eq!, then the entry of key 0
merkle_abstract_process_root(p1) ==
    IF Len(p1.sibs) # 1
    THEN [m |-> Panic(p1.m, "assert_eq"), dq |-> p1.dq]
    ELSE IF p1.sibs[1].off # 0
    THEN [m |-> Panic(p1.m, "expected_root"), dq |-> p1.dq]
    ELSE IF ~has_node(p1.m, root_node)
    THEN [m |-> Panic(p1.m, "index_out_of_bounds"), dq |-> p1.dq]
    ELSE [m |-> set_node_hash(p1.m, root_node, p1.sibs[1].hash), dq |-> p1.dq]

\* the first sibling p1 has been popped
merkle_abstract_process_popped(p1, first_sib_idx) ==
    IF p1.m.panic # "" THEN [m |-> p1.m, dq |-> p1.dq]
    ELSE IF ~is_root(first_sib_idx)
    THEN merkle_abstract_process_group(
             merkle_abstract_pop_other_siblings(p1, parent(first_sib_idx, p1.m.arity)),
             parent(first_sib_idx, p1.m.arity))
    ELSE merkle_abstract_process_root(p1)

\* the loop "while !curr_updates.is_empty()" of lines 169-230; s = [m, dq]
RECURSIVE merkle_abstract_process_queue(_)
merkle_abstract_process_queue(s) ==
    IF s.dq = <<>> \/ s.m.panic # "" THEN s
    ELSE merkle_abstract_process_queue(
             merkle_abstract_process_popped(
                 merkle_abstract_pop_sibling([m |-> s.m, dq |-> s.dq, sibs |-> <<>>]),
                 Head(s.dq).idx))

\* the queue of hashed leaves has been built (r = [m, q])
merkle_abstract_update_queued(r) ==
    IF r.m.panic # "" THEN r.m
    ELSE merkle_abstract_process_queue([m |-> r.m, dq |-> r.q]).m

\* merkle_abstract.rs AbstractMerkle::update_leaves(updates), lines 121-231
merkle_abstract_update_leaves(t, updates) ==
    IF merkle_abstract_sorted_check_panic(updates) # ""
    THEN Panic(t, merkle_abstract_sorted_check_panic(updates))
    ELSE merkle_abstract_update_queued(
             merkle_abstract_queue_from([m |-> t, q |-> <<>>], updates))

\* =================================================== the tree state machine
\* A caller (tests in merkle_crhf.rs, bench_merkle in main.rs) builds a tree
\* and applies batches to it, either with update_leaves or with
\* preprocess_leaves followed by update_preprocessed_leaves.

NoIndexRun == [stage |-> "off", arity |-> 2, p |-> 0, i |-> 0,
               c |-> 0, off |-> 0, par |-> 0]

NoHashNodesRun == [stage |-> "off", hasher |-> <<>>, old_parent |-> <<>>,
                   old_children_before |-> <<>>, old_children |-> <<>>,
                   new_children |-> <<>>, result |-> <<>>]

NoCtorRun == [stage |-> "off", fn |-> "", arity |-> 2, arg |-> 0,
              outcome |-> "", why |-> "", total_nodes |-> 0]

\* the sorted, duplicate-free batches random_updates can produce; every call
\* of random_updates samples a fresh 96-character prefix, here the number of
\* the call
Batches(m, prefix) ==
    {random_updates(SetToSortedSeq(S), prefix) :
        S \in (SUBSET (0..(m.num_leaves - 1))) \ {{}}}

\* a tree receives MaxCalls batches as long as the leaves these batches can
\* touch in total stay within twice MaxNumLeaves, and as many as fit otherwise
CallBudget(m) ==
    IF MaxCalls * m.num_leaves <= 2 * MaxNumLeaves
    THEN MaxCalls
    ELSE (2 * MaxNumLeaves) \div m.num_leaves

BatchPositions(b) == {b[j].pos : j \in 1..Len(b)}

Init ==
    /\ \E arity \in Arities, num_leaves \in LeafCounts :
          merkle = new_merkle_crhf_from_leaves(arity, num_leaves)
    /\ queue = <<>>
    /\ pc = "idle"
    /\ calls = 0
    /\ pre = merkle
    /\ batch = <<>>
    /\ op = "new"
    /\ shadow = merkle
    /\ updated = {}
    /\ ni = NoIndexRun
    /\ ctor = NoCtorRun
    /\ build = "debug"
    /\ applied = <<>>
    /\ hn = NoHashNodesRun

CanCall == pc = "idle" /\ merkle.panic = "" /\ calls < CallBudget(merkle)

\* merkle.update_leaves(updates)
UpdateLeaves ==
    /\ CanCall
    /\ \E b \in Batches(merkle, calls + 1) :
          LET m0 == [merkle EXCEPT !.log = <<>>]
          IN /\ merkle' = update_leaves(m0, b)
             /\ pre' = m0
             /\ batch' = b
             /\ applied' = Append(applied, b)
             /\ shadow' = merkle'
             /\ updated' = updated \cup BatchPositions(b)
    /\ op' = "update_leaves"
    /\ calls' = calls + 1
    /\ UNCHANGED <<hn, queue, pc, ni, ctor, build>>

\* let (queue, pre_duration) = merkle.preprocess_leaves(updates)
PreprocessLeaves ==
    /\ CanCall
    /\ \E b \in Batches(merkle, calls + 1) :
          LET m0 == [merkle EXCEPT !.log = <<>>]
              r == preprocess_leaves(m0, b)
          IN /\ merkle' = r.m
             /\ queue' = r.q
             /\ pre' = m0
             /\ batch' = b
             /\ applied' = Append(applied, b)
             /\ shadow' = update_leaves(m0, b)
             /\ updated' = updated \cup BatchPositions(b)
    /\ pc' = "preprocessed"
    /\ op' = "preprocess_leaves"
    /\ calls' = calls + 1
    /\ UNCHANGED <<hn, ni, ctor, build>>

\* merkle.update_preprocessed_leaves(queue)
UpdatePreprocessedLeaves ==
    /\ pc = "preprocessed"
    /\ merkle.panic = ""
    /\ merkle' = update_preprocessed_leaves(merkle, queue)
    /\ queue' = <<>>
    /\ pc' = "idle"
    /\ op' = "update_preprocessed_leaves"
    /\ UNCHANGED <<hn, calls, pre, batch, shadow, updated, ni, ctor, build, applied>>

Next == UpdateLeaves \/ PreprocessLeaves \/ UpdatePreprocessedLeaves

Spec == Init /\ [][Next]_vars

\* ============================================ the NodeIndex arithmetic runs
\* The pure functions of node_index.rs applied to bounded inputs.
InitIdx ==
    /\ merkle = new_merkle_crhf_from_leaves(2, 2)
    /\ queue = <<>>
    /\ pc = "index"
    /\ calls = 0
    /\ pre = merkle
    /\ batch = <<>>
    /\ op = "new"
    /\ shadow = merkle
    /\ updated = {}
    /\ \E arity \in Arities, p \in 0..MaxIndex :
          \E i \in 0..(arity - 1) :
             ni = [stage |-> "args", arity |-> arity, p |-> p, i |-> i,
                   c |-> 0, off |-> 0, par |-> 0]
    /\ ctor = NoCtorRun
    /\ build = "debug"
    /\ applied = <<>>
    /\ hn = NoHashNodesRun

\* c = p.child(arity, i)
IdxChild ==
    /\ ni.stage = "args"
    /\ ~ChildPanics(ni.arity, ni.i)
    /\ ni' = [ni EXCEPT !.stage = "child", !.c = child(ni.p, ni.arity, ni.i)]
    /\ UNCHANGED <<hn, merkle, queue, pc, calls, pre, batch, op, shadow, updated, ctor, build,
                   applied>>

\* off = c.child_offset(arity); par = c.parent(arity)
IdxBack ==
    /\ ni.stage = "child"
    /\ ~ParentPanics(ni.c)
    /\ ni' = [ni EXCEPT !.stage = "done",
                        !.off = child_offset(ni.c, ni.arity),
                        !.par = parent(ni.c, ni.arity)]
    /\ UNCHANGED <<hn, merkle, queue, pc, calls, pre, batch, op, shadow, updated, ctor, build,
                   applied>>

NextIdx == IdxChild \/ IdxBack

SpecIdx == InitIdx /\ [][NextIdx]_vars

\* ============================================ the Incremental-policy tree
\* The same engine with the Merkle++ policy of merkle_pp.rs: a caller builds
\* a tree with new_merklepp_from_leaves and applies batches with
\* update_leaves.
InitPP ==
    /\ \E arity \in Arities, num_leaves \in LeafCounts :
          merkle = new_merklepp_from_leaves(arity, num_leaves, FALSE)
    /\ queue = <<>>
    /\ pc = "idle"
    /\ calls = 0
    /\ pre = merkle
    /\ batch = <<>>
    /\ op = "new"
    /\ shadow = merkle
    /\ updated = {}
    /\ ni = NoIndexRun
    /\ ctor = NoCtorRun
    /\ build = "debug"
    /\ applied = <<>>
    /\ hn = NoHashNodesRun

NextPP == UpdateLeaves

SpecPP == InitPP /\ [][NextPP]_vars

\* ============================= the same caller with the VectorCommitment policy
InitVK ==
    /\ \E arity \in Arities, num_leaves \in LeafCounts :
          merkle = new_verkle_from_leaves(arity, num_leaves, RandomBases(arity))
    /\ queue = <<>>
    /\ pc = "idle"
    /\ calls = 0
    /\ pre = merkle
    /\ batch = <<>>
    /\ op = "new"
    /\ shadow = merkle
    /\ updated = {}
    /\ ni = NoIndexRun
    /\ ctor = NoCtorRun
    /\ build = "debug"
    /\ applied = <<>>
    /\ hn = NoHashNodesRun

NextVK == UpdateLeaves

SpecVK == InitVK /\ [][NextVK]_vars

\* =================================================== the constructor runs
\* AbstractMerkle::with_num_leaves and AbstractMerkle::new of merkle.rs and
\* the perfect-tree AbstractMerkle::new of merkle_abstract.rs, called with
\* bounded arguments, arities below 2 and empty trees included.
CtorArities == 0..(MaxArity + 2)

CtorLeafCounts == 0..MaxCtorLeaves

CtorHeights == 0..MaxHeight

Returns(tree) == [outcome |-> "returned", why |-> "", tree |-> tree]

Panics(why) == [outcome |-> "panicked", why |-> why]

Diverges(why) == [outcome |-> "diverges", why |-> why]

\* with_num_leaves for every arity.  arity = 0: "n / arity" divides by zero.
\* arity = 1 and num_leaves > 0: "n / 1 > 0" stays true, the loop only ends
\* when "height += 1" overflows (a panic with overflow checks, after 2^64
\* rounds) and never ends when the addition wraps.  arity = 1 and
\* num_leaves = 0: "(max_leaves - 1) / (arity - 1)" divides by zero.
with_num_leaves_run(arity, num_leaves, hasher, overflow_checks) ==
    IF arity = 0 THEN Panics("divide_by_zero")
    ELSE IF arity = 1 /\ num_leaves > 0
    THEN IF overflow_checks THEN Panics("add_with_overflow")
         ELSE Diverges("height_loop")
    ELSE IF arity = 1 THEN Panics("divide_by_zero")
    ELSE LET tree == with_num_leaves(arity, num_leaves, hasher)
         IN IF tree.panic # "" THEN Panics(tree.panic) ELSE Returns(tree)

new_run(arity, height, hasher, overflow_checks) ==
    IF arity < 2
    THEN with_num_leaves_run(arity, max_leaves(arity, height), hasher, overflow_checks)
    ELSE LET tree == new(arity, height, hasher)
         IN IF tree.panic # "" THEN Panics(tree.panic) ELSE Returns(tree)

\* merkle_abstract.rs AbstractMerkle::new: n = arity^height,
\* internal_nodes = (n - 1) / (arity - 1), total_nodes = internal_nodes + n
merkle_abstract_new_run(arity, height, hasher, overflow_checks) ==
    LET n == max_leaves(arity, height)
        denom == IF arity = 0 THEN usize_MAX ELSE arity - 1
    IN IF overflow_checks /\ (n = 0 \/ arity = 0) THEN Panics("subtract_with_overflow")
       ELSE IF denom = 0 THEN Panics("divide_by_zero")
       ELSE Returns(merkle_abstract_new(arity, height, hasher))

InitNew ==
    /\ merkle = new_merkle_crhf_from_leaves(2, 2)
    /\ queue = <<>>
    /\ pc = "ctor"
    /\ calls = 0
    /\ pre = merkle
    /\ batch = <<>>
    /\ op = "new"
    /\ shadow = merkle
    /\ updated = {}
    /\ ni = NoIndexRun
    /\ build \in {"debug", "release"}
    /\ applied = <<>>
    /\ hn = NoHashNodesRun
    /\ \E arity \in CtorArities :
          \/ \E num_leaves \in CtorLeafCounts :
                ctor = [NoCtorRun EXCEPT !.stage = "args", !.fn = "with_num_leaves",
                                         !.arity = arity, !.arg = num_leaves]
          \/ \E height \in CtorHeights, fn \in {"new", "merkle_abstract_new"} :
                ctor = [NoCtorRun EXCEPT !.stage = "args", !.fn = fn,
                                         !.arity = arity, !.arg = height]

CtorDone(r) ==
    /\ ctor' = [ctor EXCEPT !.stage = "done", !.outcome = r.outcome, !.why = r.why,
                            !.total_nodes = IF r.outcome = "returned"
                                            THEN nodes_len(r.tree) ELSE 0]
    /\ merkle' = IF r.outcome = "returned" THEN r.tree ELSE merkle
    /\ UNCHANGED <<hn, queue, pc, calls, pre, batch, op, shadow, updated, ni, build, applied>>

\* AbstractMerkle::with_num_leaves(arity, num_leaves, hasher)
CallWithNumLeaves ==
    /\ ctor.stage = "args"
    /\ ctor.fn = "with_num_leaves"
    /\ CtorDone(with_num_leaves_run(ctor.arity, ctor.arg, HasherCRHF_new(ctor.arity),
                                    OverflowChecks))

\* AbstractMerkle::new(arity, height, hasher)
CallNew ==
    /\ ctor.stage = "args"
    /\ ctor.fn = "new"
    /\ CtorDone(new_run(ctor.arity, ctor.arg, HasherCRHF_new(ctor.arity),
                        OverflowChecks))

\* merkle_abstract.rs AbstractMerkle::new(arity, height, hasher)
CallMerkleAbstractNew ==
    /\ ctor.stage = "args"
    /\ ctor.fn = "merkle_abstract_new"
    /\ CtorDone(merkle_abstract_new_run(ctor.arity, ctor.arg, HasherCRHF_new(ctor.arity),
                                        OverflowChecks))

\* the first update_leaves call on the tree just built, with one leaf (on a
\* tree built without leaves the position 0 is past the last leaf)
UpdateAfterNew ==
    /\ ctor.stage = "done"
    /\ ctor.fn \in {"with_num_leaves", "new"}
    /\ ctor.outcome = "returned"
    /\ calls = 0
    /\ \E pos \in {0, merkle.num_leaves - 1} \cap Nat :
          LET m0 == [merkle EXCEPT !.log = <<>>]
              b == random_updates(<<pos>>, 1)
          IN /\ merkle' = update_leaves(m0, b)
             /\ pre' = m0
             /\ batch' = b
             /\ applied' = Append(applied, b)
             /\ shadow' = merkle'
             /\ updated' = {pos}
    /\ op' = "update_leaves"
    /\ calls' = 1
    /\ UNCHANGED <<hn, queue, pc, ni, ctor, build>>

\* the batches given to the perfect tree of merkle_abstract.rs: up to two
\* updates at the first two leaves, the last leaf and the position past it,
\* in any order, so the empty batch, unsorted batches and batches that name a
\* leaf twice are among them
AbstractBatchLens == 0..2

AbstractPositions(t) == {0, 1, t.n - 1, t.n} \cap Nat

AbstractBatches(t, prefix) ==
    {random_updates(ps, prefix) :
        ps \in UNION {[1..n -> AbstractPositions(t)] : n \in AbstractBatchLens}}

\* the first update_leaves call on the perfect tree just built by
\* merkle_abstract.rs AbstractMerkle::new
UpdateAfterMerkleAbstractNew ==
    /\ ctor.stage = "done"
    /\ ctor.fn = "merkle_abstract_new"
    /\ ctor.outcome = "returned"
    /\ calls = 0
    /\ \E b \in AbstractBatches(merkle, 1) :
          LET m0 == [merkle EXCEPT !.log = <<>>]
          IN /\ merkle' = merkle_abstract_update_leaves(m0, b)
             /\ pre' = m0
             /\ batch' = b
             /\ applied' = Append(applied, b)
             /\ shadow' = merkle'
             /\ updated' = BatchPositions(b)
    /\ op' = "merkle_abstract_update_leaves"
    /\ calls' = 1
    /\ UNCHANGED <<hn, queue, pc, ni, ctor, build>>

NextNew ==
    \/ CallWithNumLeaves
    \/ CallNew
    \/ CallMerkleAbstractNew
    \/ UpdateAfterNew
    \/ UpdateAfterMerkleAbstractNew

SpecNew == InitNew /\ [][NextNew]_vars

\* ================================================== the malformed batches
\* update_leaves called with a batch that breaks its precondition: positions
\* that are not strictly ascending (out of order, or one leaf named twice),
\* in a debug build and in a release build.
MalformedLens == 2..3

MalformedBatches(m, prefix) ==
    {random_updates(ps, prefix) :
        ps \in {qs \in UNION {[1..n -> 0..(m.num_leaves - 1)] : n \in MalformedLens} :
                  \E j \in 1..(Len(qs) - 1) : qs[j] >= qs[j + 1]}}

InitBad ==
    /\ \E arity \in Arities, num_leaves \in LeafCounts \ {1} :
          merkle = new_merkle_crhf_from_leaves(arity, num_leaves)
    /\ queue = <<>>
    /\ pc = "idle"
    /\ calls = 0
    /\ pre = merkle
    /\ batch = <<>>
    /\ op = "new"
    /\ shadow = merkle
    /\ updated = {}
    /\ ni = NoIndexRun
    /\ ctor = NoCtorRun
    /\ build \in {"debug", "release"}
    /\ applied = <<>>
    /\ hn = NoHashNodesRun

\* merkle.update_leaves(updates) with a malformed batch
UpdateLeavesMalformed ==
    /\ pc = "idle"
    /\ calls = 0
    /\ \E b \in MalformedBatches(merkle, 1) :
          LET m0 == [merkle EXCEPT !.log = <<>>]
          IN /\ merkle' = update_leaves(m0, b)
             /\ pre' = m0
             /\ batch' = b
             /\ applied' = Append(applied, b)
             /\ shadow' = merkle'
             /\ updated' = BatchPositions(b)
    /\ op' = "update_leaves"
    /\ calls' = 1
    /\ UNCHANGED <<hn, queue, pc, ni, ctor, build>>

NextBad == UpdateLeavesMalformed

SpecBad == InitBad /\ [][NextBad]_vars

\* ========================================== a caller that passes empty batches
\* test_with_random_updates skips a batch size of zero ("continue"); a caller
\* that does not skip it calls update_leaves(vec![]), on a fresh tree or after
\* a first non-empty batch, in a debug or in a release build.
InitEmpty ==
    /\ \E arity \in Arities, num_leaves \in LeafCounts \ {1} :
          merkle = new_merkle_crhf_from_leaves(arity, num_leaves)
    /\ queue = <<>>
    /\ pc = "idle"
    /\ calls = 0
    /\ pre = merkle
    /\ batch = <<>>
    /\ op = "new"
    /\ shadow = merkle
    /\ updated = {}
    /\ ni = NoIndexRun
    /\ ctor = NoCtorRun
    /\ build \in {"debug", "release"}
    /\ applied = <<>>
    /\ hn = NoHashNodesRun

\* merkle.update_leaves(updates) with a non-empty batch, as the first call
UpdateLeavesFirst == calls = 0 /\ UpdateLeaves

\* merkle.update_leaves(vec![])
UpdateLeavesEmpty ==
    /\ CanCall
    /\ LET m0 == [merkle EXCEPT !.log = <<>>]
       IN /\ merkle' = update_leaves(m0, <<>>)
          /\ pre' = m0
          /\ shadow' = merkle'
    /\ batch' = <<>>
    /\ applied' = Append(applied, <<>>)
    /\ op' = "update_leaves"
    /\ calls' = calls + 1
    /\ UNCHANGED <<hn, queue, pc, updated, ni, ctor, build>>

NextEmpty == UpdateLeavesFirst \/ UpdateLeavesEmpty

SpecEmpty == InitEmpty /\ [][NextEmpty]_vars

\* ============================================== hash_nodes called on its own
\* TreeHasherFunc::hash_nodes is a public trait method.  A caller hands an
\* Incremental or a VectorCommitment policy an old parent digest, the arity
\* old child digests and the changed children in ascending offset order, with
\* digests of every tag.  The largest arity lets more than SerialCutoff
\* children change in one call.
MaxFanout == 5

Fanouts == 2..MaxFanout

\* digests of each tag of the policy, as stored (old) and as queued (new)
OldDigests(kind) ==
    IF kind = "verkle"
    THEN <<VerkleComm_Empty,
           VerkleHasher_hash_leaf_data(VerkleHasher_new(2, RandomBases(2)), 0, leaf_string(1, 0)).hash,
           VerkleComm_Internal(GroupElem_add_mul(GroupElem_identity, 0,
               Scalar_from_hash([kind |-> "leaf", data |-> leaf_string(1, 1),
                                 gelem |-> {}])))>>
    ELSE <<MerkleppHashValue_default,
           Leaf(leaf_string(1, 0)),
           InternalThin(hash_child(0, Leaf(leaf_string(1, 1))))>>

NewDigests(kind) ==
    IF kind = "verkle"
    THEN <<VerkleComm_Empty,
           VerkleHasher_hash_leaf_data(VerkleHasher_new(2, RandomBases(2)), 0, leaf_string(2, 0)).hash,
           VerkleComm_Internal(GroupElem_add_mul(GroupElem_identity, 1,
               Scalar_from_hash([kind |-> "leaf", data |-> leaf_string(2, 1),
                                 gelem |-> {}])))>>
    ELSE <<MerkleppHashValue_default,
           Leaf(leaf_string(2, 0)),
           InternalThin(hash_child(1, Leaf(leaf_string(2, 1))))>>

\* the old children: the three tags in turn, starting anywhere, or the
\* children of a parent of a new tree (all of them the default digest)
OldChildrenChoices(kind, arity) ==
    {[i \in 1..arity |-> OldDigests(kind)[((i + shift) % 3) + 1]] : shift \in 0..2}
    \cup {[i \in 1..arity |-> OldDigests(kind)[1]]}

\* the new digests of the changed offsets S: at an arity of up to SerialCutoff
\* every assignment of the three new digests; at the larger arities, where a
\* call can change more than SerialCutoff children, the three tags in turn,
\* starting anywhere, or a leaf digest of its own for each offset
NewDigestChoices(kind, arity, S) ==
    IF arity <= SerialCutoff
    THEN [S -> {NewDigests(kind)[t] : t \in 1..3}]
    ELSE {[off \in S |-> NewDigests(kind)[((off + shift) % 3) + 1]] : shift \in 0..2}
         \cup {[off \in S |->
                   IF kind = "verkle"
                   THEN VerkleHasher_hash_leaf_data(VerkleHasher_new(2, RandomBases(2)),
                                                    off, leaf_string(3, off)).hash
                   ELSE Leaf(leaf_string(3, off))]}

\* the changed children in ascending offset order: a non-empty set of offsets
\* and a new digest for each
NewChildrenChoices(kind, arity) ==
    UNION {{[j \in 1..Len(SetToSortedSeq(S)) |->
                [off |-> SetToSortedSeq(S)[j], hash |-> f[SetToSortedSeq(S)[j]]]] :
               f \in NewDigestChoices(kind, arity, S)} :
           S \in (SUBSET (0..(arity - 1))) \ {{}}}

InitHN ==
    /\ merkle = new_merkle_crhf_from_leaves(2, 2)
    /\ queue = <<>>
    /\ pc = "idle"
    /\ calls = 0
    /\ pre = merkle
    /\ batch = <<>>
    /\ op = "new"
    /\ shadow = merkle
    /\ updated = {}
    /\ ni = NoIndexRun
    /\ ctor = NoCtorRun
    /\ build = "debug"
    /\ applied = <<>>
    /\ \E kind \in {"incremental", "verkle"}, arity \in Fanouts :
          \E old_parent \in {OldDigests(kind)[t] : t \in 1..3},
             old_children \in OldChildrenChoices(kind, arity),
             new_children \in NewChildrenChoices(kind, arity) :
             hn = [stage |-> "ready",
                   hasher |-> IF kind = "verkle" THEN VerkleHasher_new(arity, RandomBases(arity))
                              ELSE IncrementalHasher_new(arity, FALSE),
                   old_parent |-> old_parent,
                   old_children_before |-> old_children,
                   old_children |-> old_children,
                   new_children |-> new_children,
                   result |-> <<>>]

\* hasher.hash_nodes(old_parent, &mut old_children, &new_children): the call
\* returns a digest or panics, and it may write to the caller's old_children;
\* old_children_before is the caller's copy of the Vec as it was handed over
CallHashNodes ==
    /\ hn.stage = "ready"
    /\ hn' = [hn EXCEPT !.stage = "done",
                        !.result = TreeHasherFunc_hash_nodes(hn.hasher, hn.old_parent,
                                       hn.old_children, hn.new_children),
                        !.old_children = TreeHasherFunc_old_children_after(hn.hasher,
                                             hn.old_children, hn.new_children)]
    /\ UNCHANGED <<merkle, queue, pc, calls, pre, batch, op, shadow, updated, ni,
                   ctor, build, applied>>

NextHN == CallHashNodes

SpecHN == InitHN /\ [][NextHN]_vars

\* ================================================================ properties
\* -------------------------------------------- vocabulary of the properties
RECURSIVE AncestorsOf(_, _)
AncestorsOf(n, arity) ==
    IF n = 0 THEN {}
    ELSE {(n - 1) \div arity} \cup AncestorsOf((n - 1) \div arity, arity)

LeafIdxOf(pos) == merkle.num_internal_nodes + pos

BatchLeaves == {LeafIdxOf(batch[j].pos) : j \in 1..Len(batch)}

BatchAncestors == UNION {AncestorsOf(l, merkle.arity) : l \in BatchLeaves}

UpdatedAncestors == UNION {AncestorsOf(LeafIdxOf(pos), merkle.arity) : pos \in updated}

AllocatedChildren(n) ==
    {c \in DOMAIN merkle.nodes : c # 0 /\ (c - 1) \div merkle.arity = n}

\* H("internal:" || the digests now stored at the allocated children of n)
DigestOfChildren(n) ==
    [tag |-> "internal", data |-> 0,
     kids |-> [j \in 1..Cardinality(AllocatedChildren(n)) |->
                 merkle.nodes[n * merkle.arity + j]]]

LeafDigest(data) == [tag |-> "leaf", data |-> data, kids |-> <<>>]

LogOf(ev) == {j \in 1..Len(merkle.log) : merkle.log[j].ev = ev}

Returned(name) == op = name /\ merkle.panic = ""

LeavesOnTwoLevels ==
    \E a, b \in merkle.num_internal_nodes..(Cardinality(DOMAIN merkle.nodes) - 1) :
        Cardinality(AncestorsOf(a, merkle.arity)) # Cardinality(AncestorsOf(b, merkle.arity))

\* ----------------------------------------------------------------------- C1
\* C1: after every update_leaves call that returns, every internal node that
\* is an ancestor of a leaf updated in any batch so far holds the hash of the
\* digests stored at its allocated children, and nodes[0] holds the root
\* digest computed in the last batch.
C1_MerkleConsistency ==
    Returned("update_leaves") =>
        /\ \A n \in UpdatedAncestors : merkle.nodes[n] = DigestOfChildren(n)
        /\ \A j \in LogOf("hash_nodes") :
              merkle.log[j].idx = 0 => merkle.nodes[0] = merkle.log[j].hash

\* ----------------------------------------------------------------------- C2
\* C2: after an update_leaves call that returns, the slot of every batch leaf
\* holds hash_leaf of its data and the slot of every recombined ancestor holds
\* the digest hash_nodes returned for it.
C2_WritesAtOwnIndex ==
    Returned("update_leaves") =>
        /\ \A j \in 1..Len(batch) :
              merkle.nodes[LeafIdxOf(batch[j].pos)] = LeafDigest(batch[j].data)
        /\ \A j \in LogOf("hash_nodes") :
              merkle.nodes[merkle.log[j].idx] = merkle.log[j].hash

\* ----------------------------------------------------------------------- C3
\* C3: sibling-offset round trip: child_offset(child(p, i)) = i.
C3_OffsetRoundTrip ==
    ni.stage = "done" => ni.off = ni.i

\* ----------------------------------------------------------------------- C4
\* C4: parent(child(p, i)) = p, the children of p are exactly the indices
\* p*k+1 .. p*k+k, and no other parent has child(p, i) among its children.
C4_ParentRoundTrip ==
    ni.stage = "done" =>
        /\ ni.par = ni.p
        /\ ni.c \in (ni.p * ni.arity + 1)..(ni.p * ni.arity + ni.arity)
        /\ {child(ni.p, ni.arity, j) : j \in 0..(ni.arity - 1)}
              = (ni.p * ni.arity + 1)..(ni.p * ni.arity + ni.arity)
        /\ \A q \in 0..(2 * MaxIndex) : \A j \in 0..(ni.arity - 1) :
              child(q, ni.arity, j) = ni.c => (q = ni.p /\ j = ni.i)
        /\ \A q \in 0..(2 * MaxIndex) :
              parent(ni.c, ni.arity) = q => q = ni.p

C4_Witness ==
    ni.stage = "done" /\ ni.p > 0 /\ ni.i = ni.arity - 1 /\ ni.arity > 2

\* ----------------------------------------------------------------------- C5
\* C5: update_leaves never panics on a tree built by with_num_leaves, also
\* when several batches are applied one after another.
C5_NoPanic ==
    op \in {"new", "update_leaves"} => merkle.panic = ""

\* ----------------------------------------------------------------------- C6
\* C6: an update_leaves call that returns leaves the digest of every node that
\* is neither a batch leaf nor an ancestor of one as it was before the call.
C6_Frame ==
    Returned("update_leaves") =>
        \A n \in DOMAIN merkle.nodes \ (BatchLeaves \cup BatchAncestors) :
            merkle.nodes[n] = pre.nodes[n]

\* ----------------------------------------------------------------------- C7
\* C7: during one batch hash_leaf is invoked at most once per leaf index and
\* hash_nodes at most once per parent index, and no _hashed_nodes.insert
\* check fails, whether the call returns or panics for another reason.
C7_SingleHashPerNode ==
    op \in {"update_leaves", "preprocess_leaves", "update_preprocessed_leaves"} =>
        /\ merkle.panic # "hashed_twice"
        /\ \A j, k \in LogOf("hash_leaf") :
              merkle.log[j].idx = merkle.log[k].idx => j = k
        /\ \A j, k \in LogOf("hash_nodes") :
              merkle.log[j].idx = merkle.log[k].idx => j = k

\* a two-level tree on which a batch of several leaves under different
\* parents ran to the root
C7_Witness ==
    /\ Returned("update_leaves")
    /\ LeavesOnTwoLevels
    /\ Len(batch) >= 3
    /\ Cardinality(LogOf("hash_nodes")) >= 4
    /\ Cardinality(LogOf("hash_leaf")) = Len(batch)

\* ----------------------------------------------------------------------- C8
\* C8: every update_leaves call empties the queue and ends at the root: the
\* root is dequeued exactly once, it is the last entry dequeued, and its
\* digest is the last write to the digest array.
C8_TerminatesAtRoot ==
    op = "update_leaves" =>
        /\ merkle.panic = ""
        /\ Cardinality({j \in LogOf("pop") : merkle.log[j].idx = 0}) = 1
        /\ \A j \in LogOf("pop") :
              merkle.log[j].idx = 0 => \A k \in LogOf("pop") : k <= j
        /\ merkle.log # <<>>
        /\ merkle.log[Len(merkle.log)].ev = "write"
        /\ merkle.log[Len(merkle.log)].idx = 0

\* ----------------------------------------------------------------------- C9
\* C9: preprocess_leaves(batch) followed by update_preprocessed_leaves(queue)
\* ends with the digest array and the computation counter that a single
\* update_leaves(batch) from the same initial state ends with.
C9_PreprocessEquivalence ==
    /\ op = "update_preprocessed_leaves" =>
          /\ merkle.nodes = shadow.nodes
          /\ get_num_computations(merkle.hasher) = get_num_computations(shadow.hasher)
          /\ merkle.panic = shadow.panic
    /\ (op = "preprocess_leaves" /\ merkle.panic # "") =>
          /\ merkle.nodes = shadow.nodes
          /\ merkle.panic = shadow.panic

C9_Witness ==
    /\ Returned("update_preprocessed_leaves")
    /\ calls = 2
    /\ LeavesOnTwoLevels
    /\ Len(batch) >= 2
    /\ merkle.nodes # pre.nodes
    /\ get_num_computations(merkle.hasher) > get_num_computations(pre.hasher) + Len(batch)

\* ---------------------------------------------------------------------- C10
\* C10 as stated: on every tree, two-level trees included, the digest array
\* after preprocess_leaves equals the digest array before the call.
C10_PreprocessNeverWrites ==
    op = "preprocess_leaves" => merkle.nodes = pre.nodes

\* C10 as amended: on a tree whose leaves are all on one level the digest
\* array after preprocess_leaves equals the array before the call and nothing
\* has been written; on a tree whose leaves are on two levels a
\* preprocess_leaves call that returns has already written digests.
C10_PreprocessWritesOnlyOnTwoLevels ==
    /\ (op = "preprocess_leaves" /\ ~LeavesOnTwoLevels) =>
          /\ merkle.nodes = pre.nodes
          /\ LogOf("write") = {}
    /\ (Returned("preprocess_leaves") /\ LeavesOnTwoLevels) =>
          LogOf("write") # {}

C10_Witness ==
    /\ Returned("preprocess_leaves")
    /\ ~LeavesOnTwoLevels
    /\ calls = 2
    /\ Len(queue) >= 2
    /\ \E n \in DOMAIN merkle.nodes : merkle.nodes[n] # DefaultHash

\* ------------------------------------------ vocabulary of the layout claims
Depth(n, arity) == Cardinality(AncestorsOf(n, arity))

CtorReturned(fn) == ctor.stage = "done" /\ ctor.fn = fn /\ ctor.outcome = "returned"

\* the locals of the with_num_leaves call that built the tree in "merkle"
Locals == with_num_leaves_locals(merkle.arity, merkle.num_leaves)

LeafIndices == merkle.num_internal_nodes..(nodes_len(merkle) - 1)

\* ---------------------------------------------------------------------- C11
\* C11: for arity >= 2 and num_leaves >= 2 the tree built by with_num_leaves
\* maps the leaf positions 0..num_leaves-1 to pairwise distinct indices in
\* [num_internal_nodes, nodes.len()), every index below num_internal_nodes
\* has between 1 and arity allocated children, and no leaf index has an
\* allocated child.
C11_LayoutValid ==
    (CtorReturned("with_num_leaves") /\ ctor.arity >= 2 /\ ctor.arg >= 2) =>
        /\ \A pos \in 0..(merkle.num_leaves - 1) :
              get_leaf_idx(merkle, pos) \in LeafIndices
        /\ \A p, q \in 0..(merkle.num_leaves - 1) :
              get_leaf_idx(merkle, p) = get_leaf_idx(merkle, q) => p = q
        /\ \A n \in 0..(merkle.num_internal_nodes - 1) :
              /\ Cardinality(AllocatedChildren(n)) \in 1..merkle.arity
              /\ AllocatedChildren(n) =
                    {child(n, merkle.arity, i) : i \in 0..(merkle.arity - 1)}
                       \cap DOMAIN merkle.nodes
        /\ \A l \in LeafIndices : AllocatedChildren(l) = {}

\* a tree with leaves on two levels and a parent with fewer than arity children
C11_Witness ==
    /\ CtorReturned("with_num_leaves")
    /\ ctor.arity >= 3
    /\ calls = 0
    /\ LeavesOnTwoLevels
    /\ \E n \in 0..(merkle.num_internal_nodes - 1) :
          Cardinality(AllocatedChildren(n)) < merkle.arity

\* ---------------------------------------------------------------------- C12
\* C12: for arity >= 2 and num_leaves >= 1 with_num_leaves returns without
\* panic; where the epsilon search runs it stops with epsilon in [1, arity],
\* num_second_to_last + num_last = num_leaves on a two-level layout, and in
\* every later state the digest array has num_internal_nodes + num_leaves
\* entries.
C12_ConstructionPostcondition ==
    (ctor.stage = "done" /\ ctor.fn = "with_num_leaves"
        /\ ctor.arity >= 2 /\ ctor.arg >= 1) =>
        /\ ctor.outcome = "returned"
        /\ merkle.arity = ctor.arity
        /\ merkle.num_leaves = ctor.arg
        /\ Locals.search => Locals.epsilon \in 1..merkle.arity
        /\ Locals.two => Locals.num_second_to_last + Locals.num_last = merkle.num_leaves
        /\ nodes_len(merkle) = merkle.num_internal_nodes + merkle.num_leaves
        /\ ctor.total_nodes = nodes_len(merkle)

\* a later state of a tree whose epsilon search went below arity
C12_Witness ==
    /\ CtorReturned("with_num_leaves")
    /\ op = "update_leaves"
    /\ merkle.panic = ""
    /\ merkle.nodes # pre.nodes
    /\ Locals.search
    /\ Locals.epsilon < merkle.arity
    /\ Locals.num_second_to_last >= 2

\* ---------------------------------------------------------------------- C13
\* the leaf positions whose leaf sits on the deepest level of the tree
DeepestDepth == Depth(nodes_len(merkle) - 1, merkle.arity)

\* C13: on a tree with leaves on two levels the leaf positions
\* 0..num_last-1 are the deepest-level leaves and the num_second_to_last
\* highest positions are the second-to-last-level leaves (the numbering the
\* comment above get_leaf_idx describes).
C13_DeepestLevelFirst ==
    (CtorReturned("with_num_leaves") /\ ctor.arity >= 2 /\ LeavesOnTwoLevels) =>
        \A pos \in 0..(merkle.num_leaves - 1) :
            IF pos < Locals.num_last
            THEN Depth(get_leaf_idx(merkle, pos), merkle.arity) = DeepestDepth
            ELSE Depth(get_leaf_idx(merkle, pos), merkle.arity) = DeepestDepth - 1

\* The numbering get_leaf_idx computes: on a tree with leaves on two levels
\* the leaf positions 0..num_second_to_last-1 are the second-to-last-level
\* leaves (depth height), the num_last highest positions are the
\* deepest-level leaves (depth height + 1), first_last_level_leaf is the index
\* of the first deepest-level leaf and is_last_level_leaf holds exactly for
\* the deepest-level leaves.
SecondToLastLevelFirst ==
    (CtorReturned("with_num_leaves") /\ ctor.arity >= 2 /\ LeavesOnTwoLevels) =>
        /\ Locals.num_second_to_last >= 1
        /\ Locals.num_last >= 1
        /\ DeepestDepth = Locals.height + 1
        /\ merkle.first_last_level_leaf =
              merkle.num_internal_nodes + Locals.num_second_to_last
        /\ \A pos \in 0..(merkle.num_leaves - 1) :
              LET idx == get_leaf_idx(merkle, pos)
              IN /\ pos < Locals.num_second_to_last =>
                       Depth(idx, merkle.arity) = Locals.height
                 /\ pos >= Locals.num_second_to_last =>
                       Depth(idx, merkle.arity) = Locals.height + 1
                 /\ is_last_level_leaf(merkle, idx) <=>
                       Depth(idx, merkle.arity) = DeepestDepth

\* ---------------------------------------------------------------------- C14
\* the candidates epsilon in S that make r_num divisible by arity - 1
Dividing(S) ==
    {e \in S : r_num_f(Locals.last_level_max_size, merkle.num_leaves,
                       merkle.arity, e) % (merkle.arity - 1) = 0}

\* C14 as stated: in the two-level case (arity^h < num_leaves and
\* arity^(h+1) - num_leaves >= arity) exactly one epsilon in [1, arity] makes
\* arity^(h+1) - num_leaves - (arity - epsilon) divisible by arity - 1.
C14_EpsilonUnique ==
    (CtorReturned("with_num_leaves") /\ ctor.arity >= 2 /\ Locals.search) =>
        Cardinality(Dividing(1..merkle.arity)) = 1

\* C14 as amended: in that case at least one epsilon in [1, arity] divides,
\* exactly one epsilon in [2, arity] divides and it is the one the search
\* returns; epsilon = 1 divides exactly when epsilon = arity does, so the
\* candidates in [1, arity] are not unique then, and the split is fixed by
\* the search starting at arity.
C14_EpsilonUniqueAboveOne ==
    (CtorReturned("with_num_leaves") /\ ctor.arity >= 2 /\ Locals.search) =>
        /\ Dividing(1..merkle.arity) # {}
        /\ Dividing(2..merkle.arity) = {Locals.epsilon}
        /\ (1 \in Dividing(1..merkle.arity)) <=> (merkle.arity \in Dividing(1..merkle.arity))
        /\ Locals.num_second_to_last * (merkle.arity - 1) =
              r_num_f(Locals.last_level_max_size, merkle.num_leaves,
                      merkle.arity, Locals.epsilon)

\* a search that had to step below arity, on an arity above 2
C14_Witness ==
    /\ CtorReturned("with_num_leaves")
    /\ calls = 0
    /\ Locals.search
    /\ merkle.arity >= 4
    /\ Locals.epsilon \in 2..(merkle.arity - 2)

\* ---------------------------------------------------------------------- C15
\* C15: new(arity, height) returns the tree with_num_leaves(arity,
\* arity^height) returns: num_leaves = arity^height, num_internal_nodes =
\* (arity^height - 1) / (arity - 1), first_last_level_leaf =
\* num_internal_nodes and has_leaves_on_two_levels() is false.
C15_PerfectTree ==
    (ctor.stage = "done" /\ ctor.fn = "new" /\ ctor.arity >= 2 /\ calls = 0) =>
        /\ ctor.outcome = "returned"
        /\ merkle = with_num_leaves(ctor.arity, ctor.arity ^ ctor.arg, merkle.hasher)
        /\ merkle.num_leaves = ctor.arity ^ ctor.arg
        /\ merkle.num_internal_nodes * (ctor.arity - 1) = ctor.arity ^ ctor.arg - 1
        /\ merkle.first_last_level_leaf = merkle.num_internal_nodes
        /\ ~has_leaves_on_two_levels(merkle)
        /\ ~LeavesOnTwoLevels

C15_Witness ==
    /\ CtorReturned("new")
    /\ calls = 0
    /\ ctor.arity >= 3
    /\ ctor.arg >= 2
    /\ merkle.num_leaves >= 9

\* ---------------------------------------------------------------------- C16
\* C16: a constructor call with arity 0 or 1 panics, whatever the height or
\* the leaf count; no tree is returned.
C16_ArityBelowTwoPanics ==
    (ctor.stage = "done" /\ ctor.arity < 2) => ctor.outcome = "panicked"

\* ---------------------------------------------------------------------- C17
\* C17: update_leaves with a batch whose positions are not strictly
\* ascending (out of order, or the same leaf twice) panics.
\* StrictlyAscending is the precondition as the claim words it; the test the
\* code makes on a batch is sorted_check_panic, which lets equal neighbours
\* through.
StrictlyAscending(b) == \A j \in 1..(Len(b) - 1) : b[j].pos < b[j + 1].pos

\* C17: a batch that is not strictly ascending makes update_leaves panic.
C17_MalformedBatchPanics ==
    (op = "update_leaves" /\ ~StrictlyAscending(batch)) => merkle.panic # ""

\* the same statement restricted to a build with debug assertions
C17_MalformedBatchPanicsInDebug ==
    (op = "update_leaves" /\ ~StrictlyAscending(batch) /\ build = "debug") =>
        merkle.panic # ""

\* ------------------------------- vocabulary of the Incremental-policy claims
\* the parent whose hash_nodes call was the last one started in this call:
\* the parent of the entry dequeued last
LastParent ==
    LET pops == LogOf("pop")
        last == CHOOSE j \in pops : \A k \in pops : k <= j
    IN (merkle.log[last].idx - 1) \div merkle.arity

IsPartialParent(n) ==
    /\ AllocatedChildren(n) # {}
    /\ Cardinality(AllocatedChildren(n)) < merkle.arity

\* the children of n that were dequeued (changed) in this call
ChangedChildren(n) ==
    {merkle.log[j].idx : j \in {k \in LogOf("pop") :
        merkle.log[k].idx # 0 /\ (merkle.log[k].idx - 1) \div merkle.arity = n}}

\* the sum over the offsets i of contribution(i, child_i), for the digests
\* now stored at the allocated children of n
RECURSIVE ContributionSum(_, _)
ContributionSum(n, i) ==
    IF i >= Cardinality(AllocatedChildren(n)) THEN {}
    ELSE IncHash_add(
            {[term |-> [i |-> i, bytes |-> merkle.nodes[n * merkle.arity + i + 1]],
              coef |-> 1]},
            ContributionSum(n, i + 1))

\* ---------------------------------------------------------------------- C18
\* C18: hash_nodes completes without panic on a parent with fewer than arity
\* allocated children, whatever non-empty subset of its children changed,
\* also when more than arity/2 of them changed.
C18_PartialParentNoPanic ==
    (op = "update_leaves" /\ LogOf("pop") # {} /\ IsPartialParent(LastParent)) =>
        merkle.panic \notin {"index_out_of_bounds", "assert_eq_arity", "assert_le",
                             "unreachable"}

\* ---------------------------------------------------------------------- C19
\* C19: whenever hash_nodes takes the delta branch (changed <= arity/2), in
\* any batch applied to a freshly built tree, the digest it returns is the
\* sum over the offsets i of contribution(i, child_i) for the final children.
C19_DeltaEqualsRecompute ==
    Returned("update_leaves") =>
        \A j \in LogOf("hash_nodes") :
            LET n == merkle.log[j].idx
            IN Cardinality(ChangedChildren(n)) <= merkle.arity \div 2 =>
                  merkle.log[j].hash = InternalThin(ContributionSum(n, 0))

\* ---------------------------------------------------------------------- C20
\* the two batches merged into one sorted batch
MergedBatch(b1, b2) ==
    LET U == {b1[j] : j \in 1..Len(b1)} \cup {b2[j] : j \in 1..Len(b2)}
        ps == SetToSortedSeq({u.pos : u \in U})
    IN [j \in 1..Len(ps) |-> CHOOSE u \in U : u.pos = ps[j]]

\* the tree after one update_leaves call with the merged batch on a fresh tree
OneBatchTree ==
    update_leaves(new_merklepp_from_leaves(merkle.arity, merkle.num_leaves,
                                            merkle.hasher.is_fat),
                  MergedBatch(applied[1], applied[2]))

\* C20: two successive update_leaves batches that update distinct children of
\* one parent leave that parent with the digest one batch with all the
\* updates leaves it with.
C20_BatchSplitIndependence ==
    (/\ Returned("update_leaves")
     /\ Len(applied) = 2
     /\ BatchPositions(applied[1]) \cap BatchPositions(applied[2]) = {}
     /\ \A p \in BatchPositions(applied[1]) \cup BatchPositions(applied[2]) :
           (LeafIdxOf(p) - 1) \div merkle.arity = (LeafIdxOf(batch[1].pos) - 1) \div merkle.arity
     /\ OneBatchTree.panic = "") =>
        merkle.nodes[(LeafIdxOf(batch[1].pos) - 1) \div merkle.arity]
            = OneBatchTree.nodes[(LeafIdxOf(batch[1].pos) - 1) \div merkle.arity]

\* ---------------------------------------------------------------------- C22
\* what the claim charges for the hash_nodes call logged at position j: arity
\* when more than arity/2 children of the parent changed, twice the number of
\* changed children otherwise
HashNodesCharge(j) ==
    LET changed == Cardinality(ChangedChildren(merkle.log[j].idx))
    IN IF changed > merkle.arity \div 2 THEN merkle.arity ELSE 2 * changed

RECURSIVE SumCharges(_)
SumCharges(S) ==
    IF S = {} THEN 0
    ELSE LET j == CHOOSE x \in S : TRUE
         IN HashNodesCharge(j) + SumCharges(S \ {j})

\* C22: with the Incremental policy every hash_nodes call adds arity to
\* get_num_computations when more than arity/2 children changed and twice the
\* number of changed children otherwise, never more than arity, and
\* hash_leaf_data adds nothing: the counter grows over one update_leaves call
\* by the sum of these charges over the hash_nodes calls made.
C22_IncrementalAccounting ==
    op = "update_leaves" =>
        /\ get_num_computations(merkle.hasher) - get_num_computations(pre.hasher)
              = SumCharges(LogOf("hash_nodes"))
        /\ \A j \in LogOf("hash_nodes") : HashNodesCharge(j) <= merkle.arity
        /\ merkle.panic # "assert_le"

\* a returned call on a tree of odd arity that hashed leaves, recomputed one
\* parent and updated another one incrementally
C22_Witness ==
    /\ Returned("update_leaves")
    /\ merkle.hasher.kind = "incremental"
    /\ merkle.arity = 3
    /\ LogOf("hash_leaf") # {}
    /\ \E j \in LogOf("hash_nodes") :
          Cardinality(ChangedChildren(merkle.log[j].idx)) > merkle.arity \div 2
    /\ \E j \in LogOf("hash_nodes") :
          /\ Cardinality(ChangedChildren(merkle.log[j].idx)) <= merkle.arity \div 2
          /\ HashNodesCharge(j) < merkle.arity

\* ---------------------------------------------------------------------- C29
\* C29: with the Incremental policy, over any sequence of valid batches on a
\* perfect or two-level tree, the old parent digest that reaches the delta
\* branch of hash_nodes is Internal-tagged: the unreachable!() arm is never
\* executed.
C29_DeltaParentIsInternal ==
    merkle.hasher.kind = "incremental" => merkle.panic # "unreachable"

\* ---------------------------------------------------------------------- C23
\* the growth of get_num_computations over the last call
ComputationsOfCall ==
    get_num_computations(merkle.hasher) - get_num_computations(pre.hasher)

\* C23: with the CRHF policy one update_leaves call on a valid batch of m
\* leaves raises get_num_computations by exactly m plus the number of distinct
\* proper ancestors (root included) of those leaves, whatever the tree size
\* and however many children of a parent changed.
C23_WorkProportionalToChangeSet ==
    (op = "update_leaves" /\ merkle.hasher.kind = "crhf") =>
        ComputationsOfCall = Len(batch) + Cardinality(BatchAncestors)

\* What the calls do: a call that returns has raised the counter by exactly
\* that amount, a call cut short by a panic by no more than that.
WorkOfReturnedCalls ==
    (op = "update_leaves" /\ merkle.hasher.kind = "crhf") =>
        /\ merkle.panic = "" =>
              ComputationsOfCall = Len(batch) + Cardinality(BatchAncestors)
        /\ ComputationsOfCall <= Len(batch) + Cardinality(BatchAncestors)

\* ---------------------------------------------------------------------- C30
\* C30: update_leaves called with zero updates returns without panic and
\* leaves the digest array and the policy's computation counter unchanged.
C30_EmptyBatchNoOp ==
    (op = "update_leaves" /\ batch = <<>>) =>
        /\ merkle.panic = ""
        /\ merkle.nodes = pre.nodes
        /\ get_num_computations(merkle.hasher) = get_num_computations(pre.hasher)

\* what does hold: in a build without debug assertions the empty batch is a
\* no-op, and in every build the digest array and the counter stay as they
\* were
C30_EmptyBatchNoOpInRelease ==
    (op = "update_leaves" /\ batch = <<>>) =>
        /\ build = "release" => merkle.panic = ""
        /\ build = "debug" => merkle.panic = "subtract_with_overflow"
        /\ merkle.nodes = pre.nodes
        /\ get_num_computations(merkle.hasher) = get_num_computations(pre.hasher)

\* ---------------------------------------------------------------------- C26
\* a second tree instance with the arity, leaf count, policy and digest array
\* the tree had before the last call, and nothing else in common with it: its
\* policy counter and its set of hashed nodes are those of a new instance
SecondInstance ==
    [pre EXCEPT !.hasher = [@ EXCEPT !.num_hashes = 0],
                !.hashed_nodes = {},
                !.log = <<>>]

\* the second run: the same batch applied to the second instance
SecondRun == update_leaves(SecondInstance, batch)

\* C26: two runs of update_leaves with the same arity, leaf count, policy,
\* initial digest array and batch end with identical digest arrays and
\* identical root digests (and with the same outcome).
C26_Determinism ==
    op = "update_leaves" =>
        /\ merkle.nodes = SecondRun.nodes
        /\ merkle.nodes[root_node] = SecondRun.nodes[root_node]
        /\ merkle.panic = SecondRun.panic

\* a returned second batch that rewrites a leaf of the first batch, on a tree
\* whose counter and set of hashed nodes differ from a new instance's
C26_Witness ==
    /\ Returned("update_leaves")
    /\ calls = 2
    /\ pre.hashed_nodes # {}
    /\ get_num_computations(pre.hasher) > 0
    /\ BatchPositions(applied[1]) \cap BatchPositions(applied[2]) # {}
    /\ merkle.nodes # pre.nodes
    /\ merkle.nodes[root_node] = SecondRun.nodes[root_node]

\* ---------------------------------------------------------------------- C27
\* the queue preprocess_leaves hands to the main propagation loop in the last
\* call
PreprocessedCall == preprocess_leaves(pre, batch)

\* the queue as it stands at the start of each iteration of the loop
\* "while !dequeue.is_empty()" of _process_update_queue(queue, None)
RECURSIVE LoopQueues(_)
LoopQueues(s) ==
    IF s.dq = <<>> \/ s.m.panic # "" THEN <<>>
    ELSE <<s.dq>> \o LoopQueues(process_update_queue_iter(s, FALSE))

MainLoopQueues ==
    LoopQueues([m |-> PreprocessedCall.m, dq |-> PreprocessedCall.q, enq |-> <<>>])

\* non-increasing depth from front to back, strictly ascending index within
\* one depth
QueueOrdered(q) ==
    \A i, j \in 1..Len(q) :
        i < j => /\ Depth(q[i].idx, merkle.arity) >= Depth(q[j].idx, merkle.arity)
                 /\ Depth(q[i].idx, merkle.arity) = Depth(q[j].idx, merkle.arity)
                       => q[i].idx < q[j].idx

\* the queued children of one parent are adjacent
SiblingsAdjacent(q) ==
    \A i, j, k \in 1..Len(q) :
        (i < k /\ k < j /\ q[i].idx # 0 /\ q[j].idx # 0
           /\ parent(q[i].idx, merkle.arity) = parent(q[j].idx, merkle.arity)) =>
        (q[k].idx # 0 /\ parent(q[k].idx, merkle.arity) = parent(q[i].idx, merkle.arity))

\* C27: at the start of every iteration of the main propagation loop of a
\* valid batch, and for the queue preprocess_leaves returns, the queue is in
\* non-increasing depth from front to back and in strictly ascending index
\* order within each depth, so the queued children of one parent are adjacent.
C27_QueueOrdering ==
    /\ op \in {"update_leaves", "preprocess_leaves"} =>
          \A i \in 1..Len(MainLoopQueues) :
              QueueOrdered(MainLoopQueues[i]) /\ SiblingsAdjacent(MainLoopQueues[i])
    /\ pc = "preprocessed" => QueueOrdered(queue) /\ SiblingsAdjacent(queue)

\* preprocess_leaves returned, on a tree with leaves on two levels, a queue
\* that mixes parents computed from the last level with second-to-last-level
\* leaves, and a later iteration starts with entries of two depths
C27_Witness ==
    /\ pc = "preprocessed"
    /\ merkle.panic = ""
    /\ LeavesOnTwoLevels
    /\ \E i, j \in 1..Len(queue) :
          /\ i < j
          /\ queue[i].idx < merkle.num_internal_nodes
          /\ queue[j].idx >= merkle.num_internal_nodes
    /\ \E i \in 2..Len(MainLoopQueues) :
          /\ Len(MainLoopQueues[i]) >= 2
          /\ Depth(MainLoopQueues[i][1].idx, merkle.arity)
                > Depth(MainLoopQueues[i][Len(MainLoopQueues[i])].idx, merkle.arity)

\* ---------------------------------------------------------------------- C28
\* C28: whenever hash_nodes is called for a parent during a batch, the old
\* parent digest and every old child digest it receives is the value the
\* array slot held before the batch started: no slot read for the
\* combination has been written earlier in the same batch, on perfect and on
\* two-level trees.
C28_OldValuesReadBeforeCommit ==
    op \in {"update_leaves", "preprocess_leaves", "update_preprocessed_leaves"} =>
        \A j \in LogOf("read") \cup LogOf("read_parent") :
            /\ merkle.log[j].hash = pre.nodes[merkle.log[j].idx]
            /\ \A k \in LogOf("write") : k < j => merkle.log[k].idx # merkle.log[j].idx

\* a returned second batch on a two-level tree in which a parent was combined
\* after slots had been written in the same batch, reading slots that the
\* first batch had filled
C28_Witness ==
    /\ Returned("update_leaves")
    /\ calls = 2
    /\ LeavesOnTwoLevels
    /\ \E j \in LogOf("read"), k \in LogOf("write") :
          /\ k < j
          /\ merkle.log[j].hash # HashType_default(merkle.hasher)
          /\ merkle.log[j].hash = pre.nodes[merkle.log[j].idx]
          /\ merkle.nodes[merkle.log[j].idx] # pre.nodes[merkle.log[j].idx]

\* ---------------------------------------------------------------------- C25
\* C25: with the VectorCommitment policy the old parent digest given to
\* hash_nodes is Empty in every call the engine makes, over any sequence of
\* update_leaves calls on one tree, so the unreachable!() arms for an Internal
\* or Leaf parent are never executed; a second batch that changes an already
\* written leaf completes.
C25_OldParentAlwaysEmpty ==
    (op = "update_leaves" /\ merkle.hasher.kind = "verkle") =>
        /\ \A j \in LogOf("read_parent") : merkle.log[j].hash = VerkleComm_Empty
        /\ merkle.panic \notin {"unreachable_internal", "unreachable_leaf"}

\* what does hold: the first batch on a new tree finds every parent Empty
C25_OldParentEmptyInFirstBatch ==
    (op = "update_leaves" /\ merkle.hasher.kind = "verkle" /\ calls = 1) =>
        /\ \A j \in LogOf("read_parent") : merkle.log[j].hash = VerkleComm_Empty
        /\ merkle.panic \notin {"unreachable_internal", "unreachable_leaf"}

\* ---------------------------------------------------------------------- C24
\* the hash_nodes calls of the VectorCommitment policy that have been made
VerkleCallDone == hn.stage = "done" /\ hn.hasher.kind = "verkle"

\* the (old, new) pair at the j-th changed offset
OldAt(j) == hn.old_children[hn.new_children[j].off + 1]

NewAt(j) == hn.new_children[j].hash

\* the four tag pairs for which the claim gives a scalar delta
DeltaPairs ==
    {<<"Empty", "Leaf">>, <<"Empty", "Internal">>, <<"Leaf", "Leaf">>,
     <<"Internal", "Internal">>}

\* the scalar delta the claim gives for the j-th changed offset
ClaimedDelta(j) ==
    CASE OldAt(j).tag = "Empty" /\ NewAt(j).tag = "Leaf" -> NewAt(j).scalar
      [] OldAt(j).tag = "Empty" /\ NewAt(j).tag = "Internal" ->
             hash_to_scalar(NewAt(j).gelem)
      [] OldAt(j).tag = "Leaf" /\ NewAt(j).tag = "Leaf" ->
             Scalar_sub(NewAt(j).scalar, OldAt(j).scalar)
      [] OldAt(j).tag = "Internal" /\ NewAt(j).tag = "Internal" ->
             Scalar_sub(hash_to_scalar(NewAt(j).gelem), hash_to_scalar(OldAt(j).gelem))
      [] OTHER -> {}

\* the commitment to the claimed deltas: the sum over the changed offsets of
\* bases[offset] * delta
ClaimedCommitment ==
    {[base |-> hn.new_children[j].off, exp |-> ClaimedDelta(j)] :
        j \in {k \in 1..Len(hn.new_children) : ClaimedDelta(k) # {}}}

\* C24: for each changed offset hash_nodes derives the scalar delta from the
\* (old, new) tag pair as (Empty, Leaf(y)) -> y, (Empty, Internal(g)) ->
\* hash_to_scalar(g), (Leaf(a), Leaf(b)) -> b - a, (Internal(g), Internal(h))
\* -> hash_to_scalar(h) - hash_to_scalar(g), and panics without returning a
\* digest for each of the five other pairs.
C24_DeltaTable ==
    VerkleCallDone =>
        /\ (\E j \in 1..Len(hn.new_children) :
               <<OldAt(j).tag, NewAt(j).tag>> \notin DeltaPairs)
             => hn.result.panic = "panic_tag_pair"
        /\ (\A j \in 1..Len(hn.new_children) :
               <<OldAt(j).tag, NewAt(j).tag>> \in DeltaPairs)
             => /\ hn.result.panic # "panic_tag_pair"
                /\ get_num_computations(hn.result.hasher) = Len(hn.new_children)
                /\ hn.old_parent = VerkleComm_Empty =>
                      /\ hn.result.panic = ""
                      /\ hn.result.hash = VerkleComm_Internal(ClaimedCommitment)

\* a call that returned a digest for changes of all four kinds
C24_Witness ==
    /\ VerkleCallDone
    /\ hn.result.panic = ""
    /\ \A pair \in DeltaPairs :
          \E j \in 1..Len(hn.new_children) : <<OldAt(j).tag, NewAt(j).tag>> = pair
    /\ hn.result.hash = VerkleComm_Internal(ClaimedCommitment)
    /\ Cardinality(ClaimedCommitment) = Len(hn.new_children)

\* ---------------------------------------------------------------------- C21
\* the changed children of the call, listed in the order perm
Reordered(perm) == [j \in 1..Len(hn.new_children) |-> hn.new_children[perm[j]]]

\* the same call, on the old children as they were handed over, with the
\* changed children in the order perm
ReorderedCall(perm) ==
    TreeHasherFunc_hash_nodes(hn.hasher, hn.old_parent, hn.old_children_before,
                              Reordered(perm))

\* C21: for the Incremental and the VectorCommitment policy, for a fixed old
\* parent digest and fixed old children, every permutation of the list of
\* (offset, new digest) changes with pairwise distinct offsets produces the
\* same new parent digest (and a digest at all in the same cases).
C21_OrderIndependence ==
    hn.stage = "done" =>
        \A perm \in Permutations(1..Len(hn.new_children)) :
            /\ (ReorderedCall(perm).panic = "") = (hn.result.panic = "")
            /\ hn.result.panic = "" => ReorderedCall(perm).hash = hn.result.hash

\* a returned call of the VectorCommitment policy with more than SerialCutoff
\* changed children, each with a digest of its own: the multiscalar
\* multiplication gives the same commitment for the reversed list
C21_Witness ==
    /\ hn.stage = "done"
    /\ hn.hasher.kind = "verkle"
    /\ hn.result.panic = ""
    /\ Len(hn.new_children) > SerialCutoff
    /\ \A i, j \in 1..Len(hn.new_children) :
          i # j => hn.new_children[i].hash # hn.new_children[j].hash
    /\ Cardinality(hn.result.hash.gelem) = Len(hn.new_children)
    /\ ReorderedCall([j \in 1..Len(hn.new_children) |->
                         Len(hn.new_children) + 1 - j]).hash = hn.result.hash

\* a returned call of the Incremental policy that took the delta branch with
\* two changed children, whose reversal is a different list
C21_WitnessDelta ==
    /\ hn.stage = "done"
    /\ hn.hasher.kind = "incremental"
    /\ hn.result.panic = ""
    /\ Len(hn.new_children) = 2
    /\ ~IncrementalHasher_recomputes(hn.hasher, Len(hn.new_children))
    /\ hn.new_children[1].hash # hn.new_children[2].hash
    /\ hn.result.hash # hn.old_parent
    /\ ReorderedCall([j \in 1..2 |-> 3 - j]).hash = hn.result.hash

\* a returned call of the Incremental policy that took the recompute branch
\* and overwrote the caller's old children with three different new digests
C21_WitnessRecompute ==
    /\ hn.stage = "done"
    /\ hn.hasher.kind = "incremental"
    /\ hn.result.panic = ""
    /\ IncrementalHasher_recomputes(hn.hasher, Len(hn.new_children))
    /\ Len(hn.new_children) = 3
    /\ hn.old_children # hn.old_children_before
    /\ Cardinality({hn.new_children[j].hash : j \in 1..3}) = 3

\* a returned call of the VectorCommitment policy with three changed
\* children, multiplied one by one
C21_WitnessVerkle ==
    /\ hn.stage = "done"
    /\ hn.hasher.kind = "verkle"
    /\ hn.result.panic = ""
    /\ Len(hn.new_children) = 3
    /\ Cardinality(hn.result.hash.gelem) = 3

====
